---- MODULE Spec2Model ----
(***************************************************************************)
(* A model of the rust-raytracer core: the bounding-volume hierarchy       *)
(* (scene/bvh.rs), the two scene intersection strategies (scene/mod.rs),   *)
(* sphere and bounding-box intersection (scene/shapes), and the recursive  *)
(* shading engine (lib.rs, scene/intersection.rs, ray.rs).                 *)
(*                                                                         *)
(* Numbers.  The program computes in f32.  The geometric part of the model *)
(* is exact: vectors have integer components, rays are axis-aligned unit   *)
(* rays, and a ray is only cast at spheres whose discriminant is a perfect *)
(* square, so every quantity the code computes is an integer, an infinity  *)
(* or a NaN, and is represented as such (see Num, PInf, NInf, NaN).        *)
(***************************************************************************)
EXTENDS Integers, Naturals, Sequences, FiniteSets, Bags, TLC

VARIABLES
    primitives,   \* Scene.primitives: the primitive list, in scene order
    tree,         \* BvhScene.tree.root
    built,        \* TRUE once Tree.init has run (BvhScene::from_scene)
    ray,          \* the ray of the current query
    linRes,       \* result of Scene.intersects for ray, or NotRun
    bvhRes,       \* result of BvhScene.intersects for ray, or NotRun
    tracerDepth,  \* RayTracer.depth
    tracerSamples,\* RayTracer.num_samples
    sceneLights,  \* the scene's lights, each a LightType
    stack,        \* the activations of shade_intersection and shadow_scalar
    pixel,        \* the colour trace_rays got for the pixel, once it has one
    call,         \* the function last called on its own, with its arguments
    result        \* what that call returned

bvhVars == <<primitives, tree, built, ray, linRes, bvhRes>>

shadeVars == <<tracerDepth, tracerSamples, sceneLights, stack, pixel>>

callVars == <<call, result>>

vars == <<bvhVars, shadeVars, callVars>>

(***************************************************************************)
(* Bounds of the model.                                                    *)
(***************************************************************************)
MaxPrims == 3     \* longest primitive list
MaxDepth == 2     \* largest RayTracer.depth
MaxSamples == 2   \* largest RayTracer.num_samples
MaxLights == 1    \* most lights in a scene

(***************************************************************************)
(* f32 values: a finite number, +inf, -inf or NaN, with IEEE comparisons   *)
(* (every comparison with a NaN is false) and IEEE division by zero.       *)
(***************************************************************************)
Num(v) == [k |-> "num", v |-> v]
PInf == [k |-> "pinf", v |-> 0]
NInf == [k |-> "ninf", v |-> 0]
NaN == [k |-> "nan", v |-> 0]

FLt(a, b) ==
    CASE a.k = "nan" \/ b.k = "nan" -> FALSE
      [] a.k = "ninf" -> b.k # "ninf"
      [] a.k = "pinf" -> FALSE
      [] b.k = "pinf" -> TRUE
      [] b.k = "ninf" -> FALSE
      [] OTHER -> a.v < b.v

FGt(a, b) == FLt(b, a)

\* n / d for integers n, d with d = 0 or d dividing n.
FDiv(n, d) ==
    IF d = 0
    THEN (IF n > 0 THEN PInf ELSE IF n < 0 THEN NInf ELSE NaN)
    ELSE Num(IF d > 0 THEN n \div d ELSE (-n) \div (-d))

(***************************************************************************)
(* Vec3                                                                    *)
(***************************************************************************)
VAdd(a, b) == <<a[1] + b[1], a[2] + b[2], a[3] + b[3]>>
VSub(a, b) == <<a[1] - b[1], a[2] - b[2], a[3] - b[3]>>
VMult(a, n) == <<a[1] * n, a[2] * n, a[3] * n>>
VDot(a, b) == a[1] * b[1] + a[2] * b[2] + a[3] * b[3]

Min(a, b) == IF a < b THEN a ELSE b
Max(a, b) == IF a > b THEN a ELSE b

\* The integer square root of a perfect square (0 for any other argument).
Sqrt(n) == IF \E k \in 0..n : k * k = n THEN CHOOSE k \in 0..n : k * k = n ELSE 0
IsSquare(n) == n >= 0 /\ \E k \in 0..n : k * k = n

(***************************************************************************)
(* Ray (ray.rs).  Ray::new sets vacuum to true; Ray::init builds on it.    *)
(***************************************************************************)
RayInit(ori, dir) == [ori |-> ori, dir |-> dir, vacuum |-> TRUE]

(***************************************************************************)
(* BoundingBox (scene/shapes/mod.rs)                                       *)
(***************************************************************************)
BBoxInit(min, max) == [min |-> min, max |-> max]

BBoxNew == BBoxInit(<<0, 0, 0>>, <<0, 0, 0>>)

\* impl Add for BoundingBox: a union that forgets `other`, the slip of
\* returning one operand.
BBoxAddLeftOnly(self, other) == self

\* impl Add for BoundingBox: the componentwise min/max of two boxes.
BBoxAdd(self, other) ==
    BBoxInit(
        <<Min(self.min[1], other.min[1]),
          Min(self.min[2], other.min[2]),
          Min(self.min[3], other.min[3])>>,
        <<Max(self.max[1], other.max[1]),
          Max(self.max[2], other.max[2]),
          Max(self.max[3], other.max[3])>>)

\* BoundingBox::centroid is min*0.5 + max*0.5.  The model keeps twice the
\* centroid, min + max, which orders boxes exactly as the centroid does.
Centroid2(bbox) == VAdd(bbox.min, bbox.max)

\* BoundingBox::intersects: the slab test.
BBoxIntersects(bbox, r) ==
    LET x0 == FDiv(bbox.min[1] - r.ori[1], r.dir[1])
        x1 == FDiv(bbox.max[1] - r.ori[1], r.dir[1])
        tmin0 == IF FGt(x0, x1) THEN x1 ELSE x0
        tmax0 == IF FGt(x0, x1) THEN x0 ELSE x1
        y0 == FDiv(bbox.min[2] - r.ori[2], r.dir[2])
        y1 == FDiv(bbox.max[2] - r.ori[2], r.dir[2])
        tymin == IF FGt(y0, y1) THEN y1 ELSE y0
        tymax == IF FGt(y0, y1) THEN y0 ELSE y1
    IN  IF FGt(tmin0, tymax) \/ FGt(tymin, tmax0)
        THEN FALSE
        ELSE LET tmin1 == IF FGt(tymin, tmin0) THEN tymin ELSE tmin0
                 tmax1 == IF FLt(tymax, tmax0) THEN tymax ELSE tmax0
                 z0 == FDiv(bbox.min[3] - r.ori[3], r.dir[3])
                 z1 == FDiv(bbox.max[3] - r.ori[3], r.dir[3])
                 tzmin == IF FGt(z0, z1) THEN z1 ELSE z0
                 tzmax == IF FGt(z0, z1) THEN z0 ELSE z1
             IN  ~(FGt(tmin1, tzmax) \/ FGt(tzmin, tmax1))

(***************************************************************************)
(* Sphere (scene/shapes/sphere.rs)                                         *)
(***************************************************************************)
SphereInit(origin, radius) == [origin |-> origin, radius |-> radius]

\* Sphere::get_bbox
GetBBox(s) ==
    BBoxInit(VAdd(VMult(<<-1, -1, -1>>, s.radius), s.origin),
             VAdd(VMult(<<1, 1, 1>>, s.radius), s.origin))

ShapeMissed == [kind |-> "Missed", p |-> Num(0)]
ShapeHit(p) == [kind |-> "Hit", p |-> p]

\* The discriminant b^2 - 4ac of Sphere::intersects.
Disc(s, r) ==
    LET orig == VSub(r.ori, s.origin)
        a == VDot(r.dir, r.dir)
        b == 2 * VDot(r.dir, orig)
        c == VDot(orig, orig) - s.radius * s.radius
    IN  b * b - 4 * a * c

\* Sphere::intersects without the exchange that makes t0 the smaller root.
SphereIntersectsNoSwap(s, r) ==
    LET orig == VSub(r.ori, s.origin)
        a == VDot(r.dir, r.dir)
        b == 2 * VDot(r.dir, orig)
        c == VDot(orig, orig) - s.radius * s.radius
        disc == b * b - 4 * a * c
    IN  IF disc < 0
        THEN ShapeMissed
        ELSE LET dist_sqrt == Sqrt(disc)
                 q == IF b < 0 THEN (-b - dist_sqrt) \div 2
                               ELSE (-b + dist_sqrt) \div 2
                 t0 == FDiv(q, a)
                 t1 == FDiv(c, q)
             IN  IF FLt(t1, Num(0))
                 THEN ShapeMissed
                 ELSE IF FLt(t0, Num(0)) THEN ShapeHit(t1) ELSE ShapeHit(t0)

\* Sphere::intersects.  t0 = q / a is finite; t1 = c / q is a NaN when q is 0.
SphereIntersects(s, r) ==
    LET orig == VSub(r.ori, s.origin)
        a == VDot(r.dir, r.dir)
        b == 2 * VDot(r.dir, orig)
        c == VDot(orig, orig) - s.radius * s.radius
        disc == b * b - 4 * a * c
    IN  IF disc < 0
        THEN ShapeMissed
        ELSE LET dist_sqrt == Sqrt(disc)
                 q == IF b < 0 THEN (-b - dist_sqrt) \div 2
                               ELSE (-b + dist_sqrt) \div 2
                 u0 == FDiv(q, a)
                 u1 == FDiv(c, q)
                 t0 == IF FGt(u0, u1) THEN u1 ELSE u0
                 t1 == IF FGt(u0, u1) THEN u0 ELSE u1
             IN  IF FLt(t1, Num(0))
                 THEN ShapeMissed
                 ELSE IF FLt(t0, Num(0)) THEN ShapeHit(t1) ELSE ShapeHit(t0)

(***************************************************************************)
(* Primitive (scene/shapes/mod.rs).  The model's primitives are spheres.   *)
(***************************************************************************)
PrimIntersects(prim, r) == SphereIntersects(prim, r)

(***************************************************************************)
(* The BVH (scene/bvh.rs)                                                  *)
(***************************************************************************)
None == [some |-> FALSE]
Some(x) == [some |-> TRUE, val |-> x]

Empty == [kind |-> "Empty"]
Leaf(node) == [kind |-> "Leaf", node |-> node]
Member(node) == [kind |-> "Member", node |-> node]

\* TreeNode::new
TreeNodeNew == [left |-> Empty, right |-> Empty, shape |-> None, bbox |-> BBoxNew]

\* TreeNode::get_bbox
NodeBBox(node) == IF node.kind = "Empty" THEN BBoxNew ELSE node.node.bbox

\* TreeNode::init
TreeNodeInit(left, right) ==
    [TreeNodeNew EXCEPT !.left = left, !.right = right,
                        !.bbox = BBoxAdd(NodeBBox(left), NodeBBox(right))]

\* An add that sets the bounding box and forgets the shape.
TreeNodeAddNoShape(self, shape) == [self EXCEPT !.bbox = GetBBox(shape)]

\* An add that stores the shape and forgets its bounding box.
TreeNodeAddNoBBox(self, shape) == [self EXCEPT !.shape = Some(shape)]

\* TreeNode::add
TreeNodeAdd(self, shape) ==
    [self EXCEPT !.bbox = GetBBox(shape), !.shape = Some(shape)]

\* A comparator that orders by the larger centroid coordinate first.
CompareMore(a, b, axis) ==
    Centroid2(GetBBox(a))[axis + 1] > Centroid2(GetBBox(b))[axis + 1]

\* The comparator handed to sort_by in Tree::build: Less when a's centroid
\* coordinate on the axis is strictly smaller, Greater otherwise (never Equal).
CompareLess(a, b, axis) ==
    Centroid2(GetBBox(a))[axis + 1] < Centroid2(GetBBox(b))[axis + 1]

\* Insert x into the sorted sequence s: x moves left past every element it
\* compares Less than (the std slice sort's insertion step).
RECURSIVE Insert(_, _, _)
Insert(s, x, axis) ==
    IF s = <<>> THEN <<x>>
    ELSE IF CompareLess(x, s[Len(s)], axis)
         THEN Append(Insert(SubSeq(s, 1, Len(s) - 1), x, axis), s[Len(s)])
         ELSE Append(s, x)

\* shapes.sort_by(...) of Tree::build
RECURSIVE SortBy(_, _)
SortBy(shapes, axis) ==
    IF shapes = <<>> THEN <<>>
    ELSE Insert(SortBy(SubSeq(shapes, 1, Len(shapes) - 1), axis),
                shapes[Len(shapes)], axis)

\* The split that drops the middle element when the length is odd.
SplitLossy(shapes) ==
    LET half == Len(shapes) \div 2
    IN  <<SubSeq(shapes, 1, half), SubSeq(shapes, Len(shapes) - half + 1, Len(shapes))>>

\* shapes.split_at_mut(shapes.len() / 2)
SplitAtHalf(shapes) ==
    LET half == Len(shapes) \div 2
    IN  <<SubSeq(shapes, 1, half), SubSeq(shapes, half + 1, Len(shapes))>>

\* Tree::build
RECURSIVE Build(_, _)
Build(shapes, depth) ==
    CASE Len(shapes) = 0 -> Empty
      [] Len(shapes) = 1 -> Leaf(TreeNodeAdd(TreeNodeNew, shapes[1]))
      [] OTHER ->
            LET axis == depth % 3
                parts == SplitAtHalf(SortBy(shapes, axis))
                left == Build(parts[1], depth + 1)
                right == Build(parts[2], depth + 1)
            IN  Member(TreeNodeInit(left, right))

NodeMissed == [kind |-> "Missed", p |-> Num(0), node |-> TreeNodeNew]
NodeHit(node, p) == [kind |-> "Hit", p |-> p, node |-> node]

\* The combine rule that always prefers the left child.
CombineLeftFirst(left, right) ==
    CASE left.kind = "Hit" -> left
      [] right.kind = "Hit" -> right
      [] OTHER -> NodeMissed

\* The combine rule that always prefers the right child.
CombineRightFirst(left, right) ==
    CASE right.kind = "Hit" -> right
      [] left.kind = "Hit" -> left
      [] OTHER -> NodeMissed

\* The match on (left, right) of Tree::intersects_node.
Combine(left, right) ==
    CASE left.kind = "Hit" /\ right.kind = "Hit" ->
            IF FLt(left.p, right.p) THEN left ELSE right
      [] left.kind = "Hit" -> left
      [] right.kind = "Hit" -> right
      [] OTHER -> NodeMissed

\* Tree::intersects_node
RECURSIVE IntersectsNode(_, _)
IntersectsNode(node, r) ==
    CASE node.kind = "Empty" -> NodeMissed
      [] node.kind = "Leaf" ->
            IF node.node.shape.some
            THEN LET h == PrimIntersects(node.node.shape.val, r)
                 IN  IF h.kind = "Hit" THEN NodeHit(node.node, h.p) ELSE NodeMissed
            ELSE NodeMissed
      [] OTHER ->
            IF BBoxIntersects(node.node.bbox, r)
            THEN Combine(IntersectsNode(node.node.left, r),
                         IntersectsNode(node.node.right, r))
            ELSE NodeMissed

\* The number of calls of shape.intersects that Tree::intersects_node
\* makes: one at a Leaf with a shape, those of both children at a Member
\* whose bbox the ray intersects, none otherwise.
RECURSIVE Evaluations(_, _)
Evaluations(node, r) ==
    CASE node.kind = "Empty" -> 0
      [] node.kind = "Leaf" -> IF node.node.shape.some THEN 1 ELSE 0
      [] OTHER ->
            IF BBoxIntersects(node.node.bbox, r)
            THEN Evaluations(node.node.left, r) + Evaluations(node.node.right, r)
            ELSE 0

(***************************************************************************)
(* Scene intersection (scene/mod.rs)                                       *)
(***************************************************************************)
NotRun == [kind |-> "NotRun", point |-> Num(0), shape |-> None]
Missed == [kind |-> "Missed", point |-> Num(0), shape |-> None]
Panicked == [kind |-> "Panic", point |-> Num(0), shape |-> None]
\* Intersected(Intersection::new(point, ray.clone(), shape))
Intersected(point, shape) == [kind |-> "Intersected", point |-> point, shape |-> Some(shape)]

\* The loop of Scene::intersects: acc is (intersection, point, has_intersected).
RECURSIVE Scan(_, _, _)
Scan(prims, r, acc) ==
    IF prims = <<>> THEN acc
    ELSE LET h == PrimIntersects(Head(prims), r)
             next ==
                CASE h.kind = "Hit" /\ acc.kind # "Intersected" ->
                        Intersected(h.p, Head(prims))
                  [] h.kind = "Hit" /\ acc.kind = "Intersected" /\ FLt(h.p, acc.point) ->
                        Intersected(h.p, Head(prims))
                  [] OTHER -> acc
         IN  Scan(Tail(prims), r, next)

\* Scene::intersects
SceneIntersects(prims, r) == Scan(prims, r, Missed)

\* BvhScene::intersects; TreeNode::get_shape panics on a node without a shape.
BvhSceneIntersects(root, r) ==
    LET h == IntersectsNode(root, r)
    IN  IF h.kind = "Hit"
        THEN (IF h.node.shape.some THEN Intersected(h.p, h.node.shape.val) ELSE Panicked)
        ELSE Missed

\* No tracer: the shading engine's state while only the scene is exercised.
ShadeIdle ==
    /\ tracerDepth = 0
    /\ tracerSamples = 1
    /\ sceneLights = <<>>
    /\ stack = <<>>
    /\ pixel = None

\* No function has been called on its own.
NoCall == [fn |-> "none"]

CallIdle ==
    /\ call = NoCall
    /\ result = None

\* No scene has been handed to a BvhScene.
BvhIdle ==
    /\ primitives = <<>>
    /\ tree = Empty
    /\ built = FALSE
    /\ ray = None
    /\ linRes = NotRun
    /\ bvhRes = NotRun

(***************************************************************************)
(* The BVH state machine: a scene is given, Tree.init builds its tree,     *)
(* rays are cast, and each ray is answered by the linear scan and by the   *)
(* tree.                                                                   *)
(***************************************************************************)
\* The spheres a scene is made of: unit spheres on and around the origin,
\* one behind it, and a sphere of radius 2 that contains the first.
Spheres ==
    { SphereInit(<<0, 0, 0>>, 1), SphereInit(<<2, 0, 0>>, 1),
      SphereInit(<<0, 2, 0>>, 1), SphereInit(<<0, 0, -2>>, 1),
      SphereInit(<<-2, 0, 0>>, 1), SphereInit(<<0, 0, 0>>, 2) }

\* The rays cast: head-on, tangent, missing, pointing away, starting inside
\* a sphere, starting on a sphere's surface, and along the x axis.
Rays ==
    { RayInit(<<0, 0, 3>>, <<0, 0, -1>>), RayInit(<<1, 0, 3>>, <<0, 0, -1>>),
      RayInit(<<2, 0, 3>>, <<0, 0, -1>>), RayInit(<<0, 2, 3>>, <<0, 0, -1>>),
      RayInit(<<4, 4, 3>>, <<0, 0, -1>>), RayInit(<<0, 0, 3>>, <<0, 0, 1>>),
      RayInit(<<0, 0, 0>>, <<0, 0, -1>>), RayInit(<<0, 0, 1>>, <<0, 0, 1>>),
      RayInit(<<-4, 0, 0>>, <<1, 0, 0>>), RayInit(<<-4, 1, 0>>, <<1, 0, 0>>),
      RayInit(<<4, 0, 0>>, <<-1, 0, 0>>) }

PrimLists == UNION { [1..n -> Spheres] : n \in 0..MaxPrims }

\* The model computes exactly: a ray is cast only where every discriminant
\* that has a real root has an integer one.
Exact(prims, r) ==
    \A i \in 1..Len(prims) : Disc(prims[i], r) < 0 \/ IsSquare(Disc(prims[i], r))

BvhInit ==
    /\ primitives \in PrimLists
    /\ tree = Empty                       \* Tree::new
    /\ built = FALSE
    /\ ray = None
    /\ linRes = NotRun
    /\ bvhRes = NotRun
    /\ ShadeIdle
    /\ CallIdle

\* BvhScene::from_scene -> Tree::init.  A NodeIntersection borrows the tree,
\* so no earlier query result outlives the rebuild.
TreeInit ==
    /\ ~built
    /\ tree' = Build(primitives, 0)
    /\ built' = TRUE
    /\ bvhRes' = NotRun
    /\ UNCHANGED <<primitives, ray, linRes>>
    /\ UNCHANGED <<shadeVars, callVars>>

\* A new ray is handed to the scene once the previous one has been answered.
CastRay(r) ==
    /\ ray.some => (linRes # NotRun /\ bvhRes # NotRun)
    /\ Exact(primitives, r)
    /\ ray' = Some(r)
    /\ linRes' = NotRun
    /\ bvhRes' = NotRun
    /\ UNCHANGED <<primitives, tree, built>>
    /\ UNCHANGED <<shadeVars, callVars>>

\* Scene::intersects
LinearQuery ==
    /\ ray.some
    /\ linRes = NotRun
    /\ linRes' = SceneIntersects(primitives, ray.val)
    /\ UNCHANGED <<primitives, tree, built, ray, bvhRes>>
    /\ UNCHANGED <<shadeVars, callVars>>

\* BvhScene::intersects
BvhQuery ==
    /\ ray.some
    /\ bvhRes = NotRun
    /\ bvhRes' = BvhSceneIntersects(tree, ray.val)
    /\ UNCHANGED <<primitives, tree, built, ray, linRes>>
    /\ UNCHANGED <<shadeVars, callVars>>

BvhNext ==
    \/ TreeInit
    \/ \E r \in Rays : CastRay(r)
    \/ LinearQuery
    \/ BvhQuery

SpecBvh == BvhInit /\ [][BvhNext]_vars

(***************************************************************************)
(* The shading engine (lib.rs, scene/intersection.rs, scene/material.rs).  *)
(* Its numbers are exact rationals <<n, d>> with d > 0, in lowest terms.   *)
(***************************************************************************)
RECURSIVE Gcd(_, _)
Gcd(a, b) == IF b = 0 THEN a ELSE Gcd(b, a % b)

Abs(x) == IF x < 0 THEN -x ELSE x

Rat(n, d) ==
    LET g == Gcd(Abs(n), Abs(d))
        sg == IF d < 0 THEN -1 ELSE 1
    IN  <<(sg * n) \div g, (sg * d) \div g>>

RZero == <<0, 1>>
ROne == <<1, 1>>
RAdd(a, b) == Rat(a[1] * b[2] + b[1] * a[2], a[2] * b[2])
RSub(a, b) == Rat(a[1] * b[2] - b[1] * a[2], a[2] * b[2])
RMul(a, b) == Rat(a[1] * b[1], a[2] * b[2])
RDivInt(a, n) == Rat(a[1], a[2] * n)
RLt(a, b) == a[1] * b[2] < b[1] * a[2]
RGt(a, b) == RLt(b, a)
RMax(a, b) == IF RLt(a, b) THEN b ELSE a
RMin(a, b) == IF RLt(b, a) THEN b ELSE a

(***************************************************************************)
(* Color (scene/material.rs)                                               *)
(***************************************************************************)
\* Color::r, Color::g, Color::b: the channel is clamped to [0, 1].
Clamp(x) == IF RLt(x, RZero) THEN RZero ELSE IF RGt(x, ROne) THEN ROne ELSE x

\* Color::new
ColorNew == <<RZero, RZero, RZero>>

\* Color::init
ColorInit(r, g, b) == <<Clamp(r), Clamp(g), Clamp(b)>>

\* Color::mult
ColorMult(c, num) == ColorInit(RMul(c[1], num), RMul(c[2], num), RMul(c[3], num))

\* impl Mul for Color
ColorMul(a, b) == ColorInit(RMul(a[1], b[1]), RMul(a[2], b[2]), RMul(a[3], b[3]))

\* impl Add for Color
ColorAdd(a, b) == ColorInit(RAdd(a[1], b[1]), RAdd(a[2], b[2]), RAdd(a[3], b[3]))

\* Color::scalar() > 0.0: the square root of a sum of squares is positive
\* exactly when the sum is.
ScalarPositive(c) ==
    RGt(RAdd(RAdd(RMul(c[1], c[1]), RMul(c[2], c[2])), RMul(c[3], c[3])), RZero)

Gray(x) == ColorInit(x, x, x)

(***************************************************************************)
(* Material (scene/material.rs).  The materials surfaces are made of: a    *)
(* matte one (neither reflective nor transparent), a mirror and a glass.   *)
(***************************************************************************)
MaterialInit(diffuse, ambient, specular, shininess, transparency) ==
    [diffuse |-> diffuse, ambient |-> ambient, specular |-> specular,
     shininess |-> shininess, transparency |-> transparency]

Materials ==
    [matte  |-> MaterialInit(Gray(ROne), Gray(Rat(1, 2)), ColorNew, 0, RZero),
     mirror |-> MaterialInit(Gray(Rat(1, 2)), Gray(Rat(1, 2)), Gray(ROne), 1, RZero),
     glass  |-> MaterialInit(Gray(Rat(1, 2)), Gray(Rat(1, 2)), ColorNew, 0, Rat(1, 2))]

MaterialIds == DOMAIN Materials

(***************************************************************************)
(* Rays and intersections of the shading engine.  The shading engine sees  *)
(* the scene only through IntersectableScene::intersects; the model leaves *)
(* the geometry open: each query may miss or hit a surface of any          *)
(* material, and the cosines and distances the code derives from the hit   *)
(* point are drawn when the code computes them.  A ray is its medium flag. *)
(***************************************************************************)
NoVec == <<>>

\* Ray::switch_medium
SwitchMedium(r) == [r EXCEPT !.vacuum = ~r.vacuum]

\* Intersection::new(point, ray.clone(), shape): the ray and the material of
\* the shape that was hit.
IntersectionNew(r, mat) == [ray |-> r, mat |-> mat]

\* Intersection::reflective_ray
ReflectiveRay(isect) == RayInit(NoVec, NoVec)

\* The medium index with the two media exchanged.
MediumIndexSwapped(r) == IF r.vacuum THEN Rat(3, 2) ELSE Rat(2, 3)

\* The medium index n of Intersection::refractive_ray: 1.0 / 1.5 for a ray in
\* vacuum, 1.5 / 1.0 otherwise.
MediumIndex(r) == IF r.vacuum THEN Rat(2, 3) ELSE Rat(3, 2)

\* cos_phi_2 of Intersection::refractive_ray, for cos_in = normal.dot(in_dir).
CosPhi2(isect, cos_in) ==
    LET n == MediumIndex(isect.ray)
        c == IF RGt(cos_in, RZero) THEN RSub(RZero, cos_in) ELSE cos_in
    IN  RSub(ROne, RMul(RMul(n, n), RSub(ROne, RMul(c, c))))

\* Intersection::refractive_ray: None on total internal reflection, else the
\* ray built by Ray::init followed by switch_medium.
RefractiveRay(isect, cos_in) ==
    IF RLt(CosPhi2(isect, cos_in), RZero)
    THEN None
    ELSE Some(SwitchMedium(RayInit(NoVec, NoVec)))

(***************************************************************************)
(* The pure parts of RayTracer (lib.rs)                                    *)
(***************************************************************************)
AREA_SAMPLES == 10

LightKinds == {"PointLight", "AreaLight", "DirectionalLight"}

\* Every light shines white.
LightIntensity == Gray(ROne)

\* RayTracer::ambient_lightning
AmbientLightning(kt, ka, cd) == ColorMult(ColorMul(cd, ka), RSub(ROne, kt))

\* RayTracer::calculate_fattj for a light at distance d:
\* 0.25 + 0.1 d + 0.01 d^2 is (d + 5)^2 / 100.
CalculateFattj(kind, d) ==
    IF kind = "DirectionalLight"
    THEN ROne
    ELSE RMin(ROne, Rat(100, (d + 5) * (d + 5)))

\* RayTracer::diffuse_lightning, for nl = normal.dot(dj)
DiffuseLightning(kt, cd, nl) == ColorMult(cd, RMul(RSub(ROne, kt), RMax(RZero, nl)))

\* RayTracer::specular_lightning, for rv = rj.dot(v) in {0, 1}: t.powf(q) is 1
\* when q is 0 and t otherwise.
SpecularLightning(q, ks, rv) ==
    LET t == RMax(rv, RZero)
    IN  ColorMult(ks, IF q = 0 THEN ROne ELSE t)

\* The number of light directions direct_lightning sums over.
DirectSamples(kind) == IF kind = "AreaLight" THEN AREA_SAMPLES ELSE 1

\* The loop of direct_lightning over n directions that all give the same
\* term: dir_lt = dir_lt + light, n times.
RECURSIVE SumTerm(_, _, _)
SumTerm(dir_lt, light, n) ==
    LET sum == ColorAdd(dir_lt, light)
    IN  IF n = 0 THEN dir_lt
        ELSE IF sum = dir_lt THEN dir_lt   \* the remaining additions change nothing
        ELSE SumTerm(sum, light, n - 1)

\* RayTracer::direct_lightning.  Every sampled direction has the same
\* normal.dot(dj) = nl and rj.dot(v) = rv.
DirectLightning(kind, mat, sj, fattj, num_samples, nl, rv) ==
    LET kt == mat.transparency
        cd == mat.diffuse
        ks == mat.specular
        q == mat.shininess * 128
        direct_light == ColorMult(ColorMul(LightIntensity, sj), fattj)
        term == ColorMul(direct_light,
                         ColorAdd(DiffuseLightning(kt, cd, nl), SpecularLightning(q, ks, rv)))
        light == ColorInit(RDivInt(term[1], num_samples), RDivInt(term[2], num_samples),
                           RDivInt(term[3], num_samples))
    IN  SumTerm(ColorNew, light, DirectSamples(kind))

\* The number of shadow rays shadow_scalar casts.
ShadowSamples(kind, num_samples) == IF kind = "AreaLight" THEN num_samples ELSE 1

\* The test that treats an occluder behind the light as shadowing.
OpaqueShadeNoBehind(kind, t, L) == RZero

\* What an opaque occluder hit at distance t adds to shade in shadow_scalar,
\* for a light at distance L from the shadow ray's origin.
OpaqueShade(kind, t, L) == IF kind = "PointLight" /\ t > L THEN ROne ELSE RZero

\* A depth test that never stops.
DepthExhaustedNever(depth) == FALSE

\* The depth test that opens shade_intersection and shadow_scalar.
DepthExhausted(depth) == depth <= 0

\* A recursive call that hands its own depth on.
NextDepthSame(depth) == depth

\* The depth shade_intersection and shadow_scalar pass when they call
\* themselves.
NextDepth(depth) == depth - 1

(***************************************************************************)
(* The shading state machine: trace_rays shades one pixel.  stack holds    *)
(* the live activations of shade_intersection and shadow_scalar, innermost *)
(* last; each action is one stretch of code between two calls.             *)
(***************************************************************************)
\* Distances from a surface point to a light, and from a shadow ray's origin
\* to the occluder it hits.
LightDists == {2, 15}
HitDists == {1, 2, 3}
\* normal.dot(in_dir) at a refracting surface: head-on, oblique, and oblique
\* with the normal pointing along the ray.
Cosines == {Rat(-1, 1), Rat(-3, 4), Rat(1, 2)}
\* normal.dot(dj) and rj.dot(v) of direct lighting.
LightCosines == {RZero, ROne}

Frame(fn, via, isect, depth) ==
    [fn |-> fn, via |-> via, isect |-> isect, depth |-> depth, pc |-> "enter",
     ret |-> ColorNew,
     \* shade_intersection's locals
     li |-> 1, dist |-> 0, direct_light |-> ColorNew, reflective_light |-> ColorNew,
     refractive_light |-> ColorNew, cos_in |-> RZero, tir |-> FALSE,
     \* shadow_scalar's locals
     light |-> 0, dest |-> 0, k |-> 1, shade |-> RZero,
     \* what the last shadow ray met, and how far away
     hit |-> "none", t |-> 0]

Top == stack[Len(stack)]
Rest == SubSeq(stack, 1, Len(stack) - 1)
Running(fn, pc) == stack # <<>> /\ Top.fn = fn /\ Top.pc = pc

\* The stack after the top activation has become f.
Step(f) == Append(Rest, f)
\* The stack after the top activation has become f and has called g.
Call(f, g) == Append(Append(Rest, f), g)

\* The top activation returns v: to its caller, or to trace_rays.
Return(v) ==
    IF Len(stack) = 1
    THEN /\ stack' = <<>>
         /\ pixel' = Some(v)
    ELSE /\ stack' = Append(SubSeq(stack, 1, Len(stack) - 2),
                            [stack[Len(stack) - 1] EXCEPT !.ret = v])
         /\ UNCHANGED pixel

ShadeInit ==
    /\ tracerDepth \in 0..MaxDepth
    /\ tracerSamples \in 1..MaxSamples
    /\ sceneLights \in UNION { [1..n -> LightKinds] : n \in 0..MaxLights }
    /\ stack = <<>>
    /\ pixel = None
    /\ primitives = <<>> /\ tree = Empty /\ built = FALSE
    /\ ray = None /\ linRes = NotRun /\ bvhRes = NotRun
    /\ CallIdle

\* trace_rays: the camera ray (Ray::init) hits a surface and the pixel is
\* shaded with shade_intersection(scene, &intersection, num_samples, depth).
TracePixel(m) ==
    /\ stack = <<>> /\ pixel = None
    /\ stack' = <<Frame("shade", "camera",
                        IntersectionNew(RayInit(NoVec, NoVec), m), tracerDepth)>>
    /\ UNCHANGED <<pixel, tracerDepth, tracerSamples, sceneLights>>
    /\ UNCHANGED <<bvhVars, callVars>>

\* shade_intersection, lines 254-266
ShadeEnter ==
    /\ Running("shade", "enter")
    /\ IF DepthExhausted(Top.depth)
       THEN Return(ColorNew)
       ELSE /\ stack' = Step([Top EXCEPT !.pc = "lights"])
            /\ UNCHANGED pixel
    /\ UNCHANGED <<tracerDepth, tracerSamples, sceneLights>>
    /\ UNCHANGED <<bvhVars, callVars>>

\* shade_intersection, lines 267-270: the next light, d away; its shadow
\* scalar is asked for.
ShadeLight(d) ==
    /\ Running("shade", "lights")
    /\ Top.li <= Len(sceneLights)
    /\ IF RGt(CalculateFattj(sceneLights[Top.li], d), RZero)
       THEN stack' = Call([Top EXCEPT !.pc = "direct", !.dist = d],
                          [Frame("shadow", "light", Top.isect, Top.depth)
                              EXCEPT !.light = Top.li, !.dest = d])
       ELSE stack' = Step([Top EXCEPT !.li = Top.li + 1])
    /\ UNCHANGED <<pixel, tracerDepth, tracerSamples, sceneLights>>
    /\ UNCHANGED <<bvhVars, callVars>>

\* shade_intersection, line 271
ShadeDirect(nl, rv) ==
    /\ Running("shade", "direct")
    /\ LET kind == sceneLights[Top.li]
           fattj == CalculateFattj(kind, Top.dist)
           dl == DirectLightning(kind, Materials[Top.isect.mat], Top.ret, fattj,
                                 tracerSamples, nl, rv)
       IN  stack' = Step([Top EXCEPT !.pc = "lights", !.li = Top.li + 1,
                                     !.direct_light = ColorAdd(Top.direct_light, dl)])
    /\ UNCHANGED <<pixel, tracerDepth, tracerSamples, sceneLights>>
    /\ UNCHANGED <<bvhVars, callVars>>

\* shade_intersection, lines 275-284: the reflective ray misses (hit = "none")
\* or hits a surface of material hit.
ShadeReflect(hit) ==
    /\ Running("shade", "lights")
    /\ Top.li > Len(sceneLights)
    /\ IF ScalarPositive(Materials[Top.isect.mat].specular)
       THEN IF hit = "none"
            THEN stack' = Step([Top EXCEPT !.pc = "refract", !.reflective_light = ColorNew])
            ELSE stack' = Call([Top EXCEPT !.pc = "reflected"],
                               Frame("shade", "reflective",
                                     IntersectionNew(ReflectiveRay(Top.isect), hit),
                                     NextDepth(Top.depth)))
       ELSE /\ hit = "none"
            /\ stack' = Step([Top EXCEPT !.pc = "refract", !.reflective_light = ColorNew])
    /\ UNCHANGED <<pixel, tracerDepth, tracerSamples, sceneLights>>
    /\ UNCHANGED <<bvhVars, callVars>>

\* shade_intersection, line 279
ShadeReflected ==
    /\ Running("shade", "reflected")
    /\ stack' = Step([Top EXCEPT !.pc = "refract",
                        !.reflective_light = ColorMul(Materials[Top.isect.mat].specular, Top.ret)])
    /\ UNCHANGED <<pixel, tracerDepth, tracerSamples, sceneLights>>
    /\ UNCHANGED <<bvhVars, callVars>>

\* shade_intersection, lines 286-297: the surface normal makes cos_in with the
\* incoming ray; the refractive ray, if there is one, misses or hits.
ShadeRefract(cos_in, hit) ==
    /\ Running("shade", "refract")
    /\ IF RGt(Materials[Top.isect.mat].transparency, RZero)
       THEN LET r == RefractiveRay(Top.isect, cos_in)
            IN  IF r.some
                THEN IF hit = "none"
                     THEN stack' = Step([Top EXCEPT !.pc = "sum", !.cos_in = cos_in,
                                                    !.refractive_light = ColorNew])
                     ELSE stack' = Call([Top EXCEPT !.pc = "refracted", !.cos_in = cos_in],
                                        Frame("shade", "refractive",
                                              IntersectionNew(r.val, hit), NextDepth(Top.depth)))
                ELSE /\ hit = "none"
                     /\ stack' = Step([Top EXCEPT !.pc = "sum", !.cos_in = cos_in,
                                                  !.tir = TRUE, !.refractive_light = ColorNew])
       ELSE /\ hit = "none" /\ cos_in = RZero
            /\ stack' = Step([Top EXCEPT !.pc = "sum", !.refractive_light = ColorNew])
    /\ UNCHANGED <<pixel, tracerDepth, tracerSamples, sceneLights>>
    /\ UNCHANGED <<bvhVars, callVars>>

\* shade_intersection, line 290
ShadeRefracted ==
    /\ Running("shade", "refracted")
    /\ stack' = Step([Top EXCEPT !.pc = "sum",
                        !.refractive_light =
                            ColorMult(Top.ret, Materials[Top.isect.mat].transparency)])
    /\ UNCHANGED <<pixel, tracerDepth, tracerSamples, sceneLights>>
    /\ UNCHANGED <<bvhVars, callVars>>

\* shade_intersection, line 299
ShadeSum ==
    /\ Running("shade", "sum")
    /\ LET m == Materials[Top.isect.mat]
           ambient_light == AmbientLightning(m.transparency, m.ambient, m.diffuse)
       IN  Return(ColorAdd(ColorAdd(ColorAdd(Top.direct_light, ambient_light),
                                    Top.reflective_light), Top.refractive_light))
    /\ UNCHANGED <<tracerDepth, tracerSamples, sceneLights>>
    /\ UNCHANGED <<bvhVars, callVars>>

\* shadow_scalar, lines 106-144
ShadowEnter ==
    /\ Running("shadow", "enter")
    /\ IF DepthExhausted(Top.depth)
       THEN Return(ColorNew)
       ELSE /\ stack' = Step([Top EXCEPT !.pc = "sample"])
            /\ UNCHANGED pixel
    /\ UNCHANGED <<tracerDepth, tracerSamples, sceneLights>>
    /\ UNCHANGED <<bvhVars, callVars>>

\* shadow_scalar, lines 146-162: the next shadow ray misses (hit = "none") or
\* hits a surface of material hit at distance t.
ShadowSample(hit, t) ==
    /\ Running("shadow", "sample")
    /\ Top.k <= ShadowSamples(sceneLights[Top.light], tracerSamples)
    /\ LET kind == sceneLights[Top.light]
           shadow == RayInit(NoVec, NoVec)
       IN  IF hit = "none"
           THEN /\ t = 0
                /\ stack' = Step([Top EXCEPT !.k = Top.k + 1, !.hit = hit, !.t = t,
                                             !.shade = RAdd(Top.shade, ROne)])
           ELSE /\ t \in HitDists
                /\ IF Materials[hit].transparency = RZero
                   THEN stack' = Step([Top EXCEPT !.k = Top.k + 1, !.hit = hit, !.t = t,
                                         !.shade = RAdd(Top.shade, OpaqueShade(kind, t, Top.dest))])
                   ELSE stack' = Call([Top EXCEPT !.pc = "sampled", !.hit = hit, !.t = t],
                                      [Frame("shadow", "shadow", IntersectionNew(shadow, hit),
                                             NextDepth(Top.depth))
                                          EXCEPT !.light = Top.light,
                                                 !.dest = Abs(Top.dest - t)])
    /\ UNCHANGED <<pixel, tracerDepth, tracerSamples, sceneLights>>
    /\ UNCHANGED <<bvhVars, callVars>>

\* A sum that takes the occluder for clear: the scalar found behind it is
\* added unweighted.
ShadowSampledUnweighted ==
    /\ Running("shadow", "sampled")
    /\ stack' = Step([Top EXCEPT !.pc = "sample", !.k = Top.k + 1,
                        !.shade = RAdd(Top.shade, Top.ret[1])])
    /\ UNCHANGED <<pixel, tracerDepth, tracerSamples, sceneLights>>
    /\ UNCHANGED <<bvhVars, callVars>>

\* shadow_scalar, line 158
ShadowSampled ==
    /\ Running("shadow", "sampled")
    /\ stack' = Step([Top EXCEPT !.pc = "sample", !.k = Top.k + 1,
                        !.shade = RAdd(Top.shade,
                                       RMul(Materials[Top.hit].transparency, Top.ret[1]))])
    /\ UNCHANGED <<pixel, tracerDepth, tracerSamples, sceneLights>>
    /\ UNCHANGED <<bvhVars, callVars>>

\* shadow_scalar, lines 165-167
ShadowDone ==
    /\ Running("shadow", "sample")
    /\ Top.k > ShadowSamples(sceneLights[Top.light], tracerSamples)
    /\ LET sh == RDivInt(Top.shade, ShadowSamples(sceneLights[Top.light], tracerSamples))
       IN  Return(ColorInit(sh, sh, sh))
    /\ UNCHANGED <<tracerDepth, tracerSamples, sceneLights>>
    /\ UNCHANGED <<bvhVars, callVars>>

Hits == MaterialIds \cup {"none"}

ShadeNext ==
    \/ \E m \in MaterialIds : TracePixel(m)
    \/ ShadeEnter
    \/ \E d \in LightDists : ShadeLight(d)
    \/ \E nl, rv \in LightCosines : ShadeDirect(nl, rv)
    \/ \E hit \in Hits : ShadeReflect(hit)
    \/ ShadeReflected
    \/ \E c \in Cosines \cup {RZero}, hit \in Hits : ShadeRefract(c, hit)
    \/ ShadeRefracted
    \/ ShadeSum
    \/ ShadowEnter
    \/ \E hit \in Hits, t \in HitDists \cup {0} : ShadowSample(hit, t)
    \/ ShadowSampled
    \/ ShadowDone

SpecShade == ShadeInit /\ [][ShadeNext]_vars

(***************************************************************************)
(* What the claims speak of                                                *)
(***************************************************************************)
\* The leaves of a tree, left to right, and its Member nodes.
RECURSIVE Leaves(_)
Leaves(node) ==
    CASE node.kind = "Empty" -> <<>>
      [] node.kind = "Leaf" -> <<node.node>>
      [] OTHER -> Leaves(node.node.left) \o Leaves(node.node.right)

RECURSIVE Members(_)
Members(node) ==
    IF node.kind = "Member"
    THEN {node.node} \cup Members(node.node.left) \cup Members(node.node.right)
    ELSE {}

RECURSIVE BagOfSeq(_)
BagOfSeq(s) == IF s = <<>> THEN EmptyBag ELSE BagOfSeq(Tail(s)) (+) SetToBag({Head(s)})

\* The distances at which the primitives of the scene are hit by the ray.
HitDistances(prims, r) ==
    { PrimIntersects(prims[i], r).p.v :
        i \in { j \in 1..Len(prims) : PrimIntersects(prims[j], r).kind = "Hit" } }

BothAnswered == built /\ ray.some /\ linRes # NotRun /\ bvhRes # NotRun

\* C1: on the tree built by Tree.init, BvhScene.intersects and Scene.intersects
\* agree on hit versus miss for every primitive list and ray; both miss exactly
\* when no primitive is hit, and when they hit, both report the minimum hit
\* distance over all primitives of the list.
C1_SameHitAndDistance ==
    BothAnswered =>
        LET ds == HitDistances(primitives, ray.val)
        IN  /\ linRes.kind = bvhRes.kind
            /\ linRes.kind \in {"Missed", "Intersected"}
            /\ (linRes.kind = "Missed") <=> (ds = {})
            /\ linRes.kind = "Intersected" =>
                    /\ linRes.point = bvhRes.point
                    /\ linRes.point.k = "num"
                    /\ linRes.point.v \in ds
                    /\ \A d \in ds : linRes.point.v <= d

\* C1 witness: a three-primitive scene in which two primitives are hit at
\* different distances and both strategies have answered with the nearer.
C1_Witness ==
    /\ BothAnswered
    /\ Len(primitives) = 3
    /\ Cardinality(HitDistances(primitives, ray.val)) >= 2
    /\ bvhRes.kind = "Intersected"
    /\ linRes.kind = "Intersected"

\* C2: the BVH query and the linear scan return the same primitive for every
\* primitive list and ray, also when several primitives are hit at exactly
\* the same minimum distance.
C2_SamePrimitive ==
    BothAnswered => linRes = bvhRes

\* C8: after Tree.init on n primitives the tree has exactly n leaves, every
\* leaf holds one primitive together with that primitive's bbox, and the
\* leaves hold the input multiset of primitives.
C8_LeavesArePrimitives ==
    built =>
        LET ls == Leaves(tree)
        IN  /\ Len(ls) = Len(primitives)
            /\ \A i \in 1..Len(ls) :
                    /\ ls[i].shape.some
                    /\ ls[i].bbox = GetBBox(ls[i].shape.val)
                    /\ ls[i].left = Empty /\ ls[i].right = Empty
            /\ BagOfSeq([i \in 1..Len(ls) |-> ls[i].shape.val]) = BagOfSeq(primitives)

\* C8 witness: a built tree of three primitives, two of them distinct with the
\* same centroid coordinate on the root's split axis.
C8_Witness ==
    /\ built
    /\ Len(primitives) = 3
    /\ \E i, j \in 1..3 :
            /\ primitives[i] # primitives[j]
            /\ Centroid2(GetBBox(primitives[i]))[1] = Centroid2(GetBBox(primitives[j]))[1]

\* The least and the greatest of a non-empty set of integers.
Least(S) == CHOOSE x \in S : \A y \in S : x <= y
Greatest(S) == CHOOSE x \in S : \A y \in S : x >= y

\* The bbox that is the componentwise min/max over a non-empty set of bboxes.
UnionOf(boxes) ==
    [min |-> [i \in 1..3 |-> Least({b.min[i] : b \in boxes})],
     max |-> [i \in 1..3 |-> Greatest({b.max[i] : b \in boxes})]]

Contains(outer, inner) ==
    \A i \in 1..3 : outer.min[i] <= inner.min[i] /\ inner.max[i] <= outer.max[i]

LeafBoxes(node) ==
    LET ls == Leaves(node) IN { GetBBox(ls[i].shape.val) : i \in 1..Len(ls) }

\* C9: in a built tree the bbox of every Member node is the componentwise
\* min/max union of its two children's bboxes; the root bbox is the union of
\* the bboxes of all input primitives and every Member bbox contains the bbox
\* of every primitive of its subtree.
C9_MemberBBoxIsUnion ==
    built =>
        /\ \A n \in Members(tree) :
                /\ n.bbox = UnionOf({NodeBBox(n.left), NodeBBox(n.right)})
                /\ \A b \in LeafBoxes(Member(n)) : Contains(n.bbox, b)
        /\ Len(primitives) >= 2 =>
                /\ tree.kind = "Member"
                /\ tree.node.bbox =
                        UnionOf({GetBBox(primitives[i]) : i \in 1..Len(primitives)})

\* C9 witness: a built tree of three primitives whose root bbox is strictly
\* larger than each child's.
C9_Witness ==
    /\ built
    /\ Len(primitives) = 3
    /\ tree.kind = "Member"
    /\ tree.node.bbox # NodeBBox(tree.node.left)
    /\ tree.node.bbox # NodeBBox(tree.node.right)
    /\ tree.node.right.kind = "Member"

\* C10: Tree.init on an empty list leaves the root Empty and every query on
\* an Empty tree returns Missed; Tree.init on a one-element list yields a
\* single Leaf holding the primitive, whose bbox and centroid are those of
\* the primitive.
C10_EmptyAndSingleton ==
    /\ (built /\ Len(primitives) = 0) => tree = Empty
    /\ (tree = Empty /\ bvhRes # NotRun) => bvhRes = Missed
    /\ (built /\ Len(primitives) = 1) =>
            /\ tree.kind = "Leaf"
            /\ tree.node.shape = Some(primitives[1])
            /\ tree.node.bbox = GetBBox(primitives[1])
            /\ Centroid2(tree.node.bbox) = VMult(primitives[1].origin, 2)
            /\ tree.node.left = Empty /\ tree.node.right = Empty

\* C10 witness: a one-primitive scene has been built and queried with a ray
\* that hits its primitive.
C10_Witness ==
    /\ built
    /\ Len(primitives) = 1
    /\ tree.kind = "Leaf"
    /\ bvhRes.kind = "Intersected"

\* C10, the empty case: an empty scene has been built and queried.
C10_WitnessEmpty ==
    /\ built
    /\ Len(primitives) = 0
    /\ bvhRes = Missed

(***************************************************************************)
(* The shading claims                                                      *)
(***************************************************************************)
\* The activation on top of the stack after a step.
TopAfter == stack'[Len(stack')]

\* The activations that were called by the function they run.
SelfCalls == { i \in 2..Len(stack) : stack[i].fn = stack[i - 1].fn }

\* C3: shade_intersection entered with depth 0 returns black, whatever the
\* material of the surface, and does nothing else: its one step hands
\* (0,0,0) to its caller (or to the pixel) and starts no shadow, reflection
\* or refraction ray.
C3_DepthZeroIsBlack ==
    [][ (Running("shade", "enter") /\ Top.depth = 0) =>
            /\ Len(stack') = Len(stack) - 1
            /\ Len(stack) = 1 => pixel' = Some(<<RZero, RZero, RZero>>)
            /\ Len(stack) > 1 =>
                    /\ TopAfter = [stack[Len(stack) - 1] EXCEPT !.ret = <<RZero, RZero, RZero>>]
                    /\ UNCHANGED pixel ]_vars

\* C3 witness: a glass surface at depth 1 has received black from the
\* depth-0 shading of the surface its refracted ray hit.
C3_Witness ==
    /\ Running("shade", "refracted")
    /\ Top.depth = 1
    /\ Top.isect.mat = "glass"
    /\ Top.ret = ColorNew

\* An upper bound on the steps a call of shadow_scalar at depth d takes:
\* its entry, at most num_samples shadow rays, each cast in one step and, if
\* it recurses, summed up in another, and its return.
RECURSIVE ShadowWork(_)
ShadowWork(d) ==
    IF d <= 0 THEN 1 ELSE 2 + tracerSamples * (2 + ShadowWork(d - 1))

\* The same for shade_intersection: its entry, for each light the call of
\* shadow_scalar and the direct light, the reflected and the refracted ray
\* with the shading of what they hit, and the sum.
RECURSIVE ShadeWork(_)
ShadeWork(d) ==
    IF d <= 0 THEN 1
    ELSE 2 + Len(sceneLights) * (2 + ShadowWork(d)) + 2 * (2 + ShadeWork(d - 1))

\* The steps an activation may still take itself, with the calls it has yet
\* to make.
WorkLeft(f) ==
    LET lights == (2 + ShadowWork(f.depth))
        bounce == (2 + ShadeWork(f.depth - 1))
        rays == (2 + ShadowWork(f.depth - 1))
    IN  CASE f.pc = "enter" -> IF f.fn = "shade" THEN ShadeWork(f.depth) ELSE ShadowWork(f.depth)
          [] f.pc = "lights" -> (Len(sceneLights) - f.li + 1) * lights + 2 * bounce + 1
          [] f.pc = "direct" -> 1 + (Len(sceneLights) - f.li) * lights + 2 * bounce + 1
          [] f.pc = "reflected" -> 1 + bounce + 1
          [] f.pc = "refract" -> bounce + 1
          [] f.pc = "refracted" -> 2
          [] f.pc = "sum" -> 1
          [] f.pc = "sample" -> (tracerSamples - f.k + 1) * rays + 1
          [] f.pc = "sampled" -> 1 + (tracerSamples - f.k) * rays + 1

RECURSIVE SumWork(_)
SumWork(frames) ==
    IF frames = <<>> THEN 0 ELSE WorkLeft(Head(frames)) + SumWork(Tail(frames))

\* The steps the shading of the pixel may still take.
StepsLeft ==
    IF stack = <<>>
    THEN IF pixel = None THEN 1 + ShadeWork(tracerDepth) ELSE 0
    ELSE SumWork(stack)

\* C4: shading a primary hit terminates, every step lowering a bound on the
\* steps that are left; every call of shade_intersection or shadow_scalar
\* to itself passes its caller's depth less one and is never made from
\* depth 0, so depths stay within 0..maxDepth and at most maxDepth such
\* calls are ever nested.
C4_DepthBoundsRecursion ==
    /\ [](/\ \A i \in 1..Len(stack) : stack[i].depth \in 0..tracerDepth
          /\ \A i \in SelfCalls :
                /\ stack[i].depth = stack[i - 1].depth - 1
                /\ stack[i - 1].depth > 0
          /\ Cardinality(SelfCalls) <= tracerDepth
          /\ StepsLeft \in Nat
          /\ pixel # None => StepsLeft = 0)
    /\ [][StepsLeft' < StepsLeft]_vars

\* C4 witness: maxDepth nested recursive calls between a mirror and a glass,
\* the innermost at depth 0.
C4_Witness ==
    /\ tracerDepth = MaxDepth
    /\ Cardinality(SelfCalls) = MaxDepth
    /\ Top.depth = 0
    /\ \E i, j \in 1..Len(stack) : stack[i].via = "reflective" /\ stack[j].via = "refractive"

\* C5: the ray returned by refractive_ray has the in_vacuum flag of the
\* incoming ray negated, so the flag alternates along successive refractions.
C5_RefractedFlagNegated ==
    \A i \in 2..Len(stack) :
        stack[i].via = "refractive" =>
            stack[i].isect.ray.vacuum = ~stack[i - 1].isect.ray.vacuum

\* The condition 1 - n^2 (1 - c^2) < 0 for c = num/den, in integers:
\* n^2 is 4/9 for a ray in vacuum and 9/4 otherwise.
TirCondition(vacuum, c) ==
    IF vacuum
    THEN 4 * (c[2] * c[2] - c[1] * c[1]) > 9 * c[2] * c[2]
    ELSE 9 * (c[2] * c[2] - c[1] * c[1]) > 4 * c[2] * c[2]

\* C6: at a transparent surface refractive_ray returns no ray exactly when
\* 1 - n^2 (1 - c^2) < 0, and shade_intersection then goes on to its sum
\* with black as the refractive contribution.
C6_TotalInternalReflection ==
    \A i \in 1..Len(stack) :
        LET f == stack[i]
        IN  (/\ f.fn = "shade"
             /\ f.pc \in {"refracted", "sum"}
             /\ RGt(Materials[f.isect.mat].transparency, RZero)) =>
                /\ f.tir <=> TirCondition(f.isect.ray.vacuum, f.cos_in)
                /\ f.tir => (f.pc = "sum" /\ f.refractive_light = <<RZero, RZero, RZero>>)

\* C6 witness: a ray inside the glass meets the surface beyond the critical
\* angle and the shading has reached its sum.
C6_Witness ==
    /\ Running("shade", "sum")
    /\ Top.tir
    /\ ~Top.isect.ray.vacuum

\* C7: under a Point light a shadow ray that misses adds 1 to shade, one
\* that hits an opaque occluder no farther than the light adds 0, and one
\* that hits an opaque occluder strictly farther than the light adds 1.
C7_PointLightOcclusion ==
    [][ (/\ Running("shadow", "sample")
         /\ sceneLights[Top.light] = "PointLight"
         /\ Len(stack') = Len(stack)) =>
            LET added == RSub(TopAfter.shade, Top.shade)
            IN  /\ TopAfter.k = Top.k + 1
                /\ CASE TopAfter.hit = "none" -> added = <<1, 1>>
                     [] TopAfter.t <= Top.dest -> added = <<0, 1>>
                     [] OTHER -> added = <<1, 1>> ]_vars

\* C7 witness: the shadow ray towards a Point light has met an opaque
\* surface behind the light and the point counts as lit.
C7_Witness ==
    /\ Running("shadow", "sample")
    /\ sceneLights[Top.light] = "PointLight"
    /\ Top.k = 2
    /\ Top.hit = "matte"
    /\ Top.t > Top.dest
    /\ Top.shade = ROne

(***************************************************************************)
(* Poly and Mesh (scene/shapes/poly_mesh.rs).  A Poly is the positions of  *)
(* its three vertices; vertices and rays have integer components and the   *)
(* quantities Poly::intersects derives from them are exact rationals.      *)
(***************************************************************************)
\* Vec3::cross
VCross(a, b) ==
    <<a[2] * b[3] - a[3] * b[2], a[3] * b[1] - a[1] * b[3], a[1] * b[2] - a[2] * b[1]>>

PolyInit(x, y, z) == [x |-> x, y |-> y, z |-> z]

\* Poly::intersects.  a0 is an integer, so it lies within 0.0000001 of 0
\* exactly when it is 0; t is a multiple of 1 / a0, so it exceeds 0.0000001
\* exactly when it is positive.
PolyIntersects(poly, r) ==
    LET e1 == VSub(poly.y, poly.x)
        e2 == VSub(poly.z, poly.x)
        h == VCross(r.dir, e2)
        a0 == VDot(e1, h)
    IN  IF a0 = 0 THEN ShapeMissed
        ELSE LET f == Rat(1, a0)
                 s == VSub(r.ori, poly.x)
                 u == RMul(f, Rat(VDot(s, h), 1))
                 q == VCross(s, e1)
                 v == RMul(f, Rat(VDot(r.dir, q), 1))
                 t == RMul(f, Rat(VDot(e2, q), 1))
             IN  IF RLt(u, RZero) \/ RGt(u, ROne) THEN ShapeMissed
                 ELSE IF RLt(v, RZero) \/ RGt(RAdd(u, v), ROne) THEN ShapeMissed
                 ELSE IF RGt(t, RZero) THEN ShapeHit(t) ELSE ShapeMissed

\* A loop in which a later hit at an equal distance replaces the earlier one.
RECURSIVE MeshScanLastWins(_, _, _, _)
MeshScanLastWins(polys, r, i, acc) ==
    IF i > Len(polys) THEN acc
    ELSE LET h == PolyIntersects(polys[i], r)
             next == IF h.kind = "Hit" /\ (~acc.has_intersected \/ ~RLt(acc.point, h.p))
                     THEN [point |-> h.p, index |-> i - 1, has_intersected |-> TRUE]
                     ELSE acc
         IN  MeshScanLastWins(polys, r, i + 1, next)

\* The loop of Mesh::intersects from the i-th poly on; index counts from 0.
RECURSIVE MeshScan(_, _, _, _)
MeshScan(polys, r, i, acc) ==
    IF i > Len(polys) THEN acc
    ELSE LET h == PolyIntersects(polys[i], r)
             next ==
                CASE h.kind = "Hit" /\ ~acc.has_intersected ->
                        [point |-> h.p, index |-> i - 1, has_intersected |-> TRUE]
                  [] h.kind = "Hit" /\ acc.has_intersected /\ RLt(h.p, acc.point) ->
                        [point |-> h.p, index |-> i - 1, has_intersected |-> acc.has_intersected]
                  [] OTHER -> acc
         IN  MeshScan(polys, r, i + 1, next)

\* Mesh::intersects
MeshIntersects(polys, r) ==
    LET acc == MeshScan(polys, r, 1, [point |-> RZero, index |-> 0, has_intersected |-> FALSE])
    IN  IF acc.has_intersected
        THEN <<ShapeHit(acc.point), acc.index>>
        ELSE <<ShapeMissed, acc.index>>

(***************************************************************************)
(* Functions called on their own.  call records the function and its       *)
(* arguments, result what it returned.                                     *)
(***************************************************************************)
MaxPolys == 3     \* most triangles in a mesh

\* The triangles of a mesh: four parallel ones at z = 0, -2, -1 and -3, one
\* that shares the plane of the first, and one on edge to the rays.
Triangles ==
    { PolyInit(<<0, 0, 0>>, <<2, 0, 0>>, <<0, 2, 0>>),
      PolyInit(<<0, 0, -2>>, <<4, 0, -2>>, <<0, 4, -2>>),
      PolyInit(<<0, 0, -1>>, <<2, 0, -1>>, <<0, 2, -1>>),
      PolyInit(<<0, 0, -3>>, <<6, 0, -3>>, <<0, 6, -3>>),
      PolyInit(<<0, 0, 0>>, <<4, 0, 0>>, <<0, 4, 0>>),
      PolyInit(<<0, 0, 0>>, <<0, 0, -2>>, <<0, 2, 0>>) }

MeshLists == UNION { [1..n -> Triangles] : n \in 0..MaxPolys }

\* Rays towards the triangles: through all of them, on an edge, through the
\* larger ones only, past them all, away from them, from between them, and
\* slanted.
MeshRays ==
    { RayInit(<<1, 0, 1>>, <<0, 0, -1>>), RayInit(<<1, 1, 1>>, <<0, 0, -1>>),
      RayInit(<<3, 1, 1>>, <<0, 0, -1>>), RayInit(<<5, 5, 1>>, <<0, 0, -1>>),
      RayInit(<<1, 0, 1>>, <<0, 0, 1>>), RayInit(<<1, 0, -1>>, <<0, 0, -1>>),
      RayInit(<<-1, 1, 1>>, <<1, 0, -1>>) }

CallInit ==
    /\ CallIdle
    /\ BvhIdle
    /\ ShadeIdle

\* Scene::intersects on a scene of spheres
CallSceneIntersects(prims, r) ==
    /\ call = NoCall
    /\ Exact(prims, r)
    /\ call' = [fn |-> "Scene::intersects", primitives |-> prims, ray |-> r]
    /\ result' = SceneIntersects(prims, r)
    /\ UNCHANGED <<bvhVars, shadeVars>>

\* Mesh::intersects
CallMeshIntersects(polys, r) ==
    /\ call = NoCall
    /\ call' = [fn |-> "Mesh::intersects", polys |-> polys, ray |-> r]
    /\ result' = MeshIntersects(polys, r)
    /\ UNCHANGED <<bvhVars, shadeVars>>

\* The shadow scalars and the numbers of samples direct_lightning is called with.
ShadowScalars == {ColorNew, Gray(Rat(1, 2)), Gray(ROne)}

\* RayTracer::direct_lightning for a light at distance d
CallDirectLightning(kind, m, sj, d, num_samples, nl, rv) ==
    /\ call = NoCall
    /\ call' = [fn |-> "direct_lightning", kind |-> kind, mat |-> m, sj |-> sj,
                dist |-> d, num_samples |-> num_samples, nl |-> nl, rv |-> rv]
    /\ result' = DirectLightning(kind, Materials[m], sj, CalculateFattj(kind, d),
                                 num_samples, nl, rv)
    /\ UNCHANGED <<bvhVars, shadeVars>>

(***************************************************************************)
(* Color over all of f32 (scene/material.rs).  The shading engine above    *)
(* only meets finite channels, which Clamp covers; the methods of Color    *)
(* take any f32: a channel is [k, v] with v a rational when k = "num".     *)
(***************************************************************************)
RNum(n, d) == Num(Rat(n, d))
RPInf == [k |-> "pinf", v |-> RZero]
RNInf == [k |-> "ninf", v |-> RZero]
RNaN == [k |-> "nan", v |-> RZero]

\* a < b on f32: false when either is a NaN
ChanLt(a, b) ==
    CASE a.k = "nan" \/ b.k = "nan" -> FALSE
      [] a.k = "ninf" -> b.k # "ninf"
      [] a.k = "pinf" -> FALSE
      [] b.k = "pinf" -> TRUE
      [] b.k = "ninf" -> FALSE
      [] OTHER -> RLt(a.v, b.v)

ChanSign(a) ==
    CASE a.k = "pinf" -> 1
      [] a.k = "ninf" -> -1
      [] a.k = "nan" -> 0
      [] OTHER -> IF a.v[1] > 0 THEN 1 ELSE IF a.v[1] < 0 THEN -1 ELSE 0

\* a * b on f32: infinity times zero is a NaN
ChanMul(a, b) ==
    CASE a.k = "nan" \/ b.k = "nan" -> RNaN
      [] a.k = "num" /\ b.k = "num" -> Num(RMul(a.v, b.v))
      [] ChanSign(a) * ChanSign(b) = 0 -> RNaN
      [] ChanSign(a) * ChanSign(b) > 0 -> RPInf
      [] OTHER -> RNInf

\* a + b on f32: the sum of opposite infinities is a NaN
ChanAdd(a, b) ==
    CASE a.k = "nan" \/ b.k = "nan" -> RNaN
      [] a.k = "num" /\ b.k = "num" -> Num(RAdd(a.v, b.v))
      [] a.k = "num" -> b
      [] b.k = "num" -> a
      [] a.k = b.k -> a
      [] OTHER -> RNaN

\* Color::r, Color::g, Color::b on f32:
\* if r < 0.0 { r = 0.0; }  if r > 1.0 { r = 1.0; }  self.r = r;
ChanSet(r) ==
    LET r1 == IF ChanLt(r, RNum(0, 1)) THEN RNum(0, 1) ELSE r
    IN  IF ChanLt(RNum(1, 1), r1) THEN RNum(1, 1) ELSE r1

\* Color::new
F32ColorNew == <<RNum(0, 1), RNum(0, 1), RNum(0, 1)>>

\* Color::init
F32ColorInit(r, g, b) ==
    [[[F32ColorNew EXCEPT ![1] = ChanSet(r)] EXCEPT ![2] = ChanSet(g)] EXCEPT ![3] = ChanSet(b)]

\* Color::mult
F32ColorMult(c, num) == F32ColorInit(ChanMul(c[1], num), ChanMul(c[2], num), ChanMul(c[3], num))

\* impl Mul for Color
F32ColorMul(a, b) == F32ColorInit(ChanMul(a[1], b[1]), ChanMul(a[2], b[2]), ChanMul(a[3], b[3]))

\* impl Add for Color
F32ColorAdd(a, b) == F32ColorInit(ChanAdd(a[1], b[1]), ChanAdd(a[2], b[2]), ChanAdd(a[3], b[3]))

\* One channel of Color::as_pixel, (self.r * 255.0) as u8: the possible
\* bytes.  A value in range is truncated; casting a NaN or a value out of
\* the range of u8 is undefined and may give any byte.
AsPixelChannel(x) ==
    LET y == ChanMul(x, RNum(255, 1))
    IN  IF y.k = "num" /\ ~RLt(y.v, RZero) /\ RLt(y.v, Rat(256, 1))
        THEN {y.v[1] \div y.v[2]}
        ELSE 0..255

\* The f32 values handed to the methods of Color, and the colours that are
\* the other operand of Mul and Add.
F32Values == {RNInf, RNum(-1, 1), RNum(0, 1), RNum(1, 2), RNum(1, 1), RNum(2, 1), RPInf, RNaN}
F32Colors ==
    LET some == {RNum(-1, 1), RNum(1, 2), RNum(2, 1), RNaN}
    IN  { F32ColorInit(r, g, g) : r \in some, g \in some }

\* The number of methods called on one Color value.
MaxColorOps == 2

\* let mut c = Color::new();
CallColorNew ==
    /\ call = NoCall
    /\ call' = [fn |-> "Color", ops |-> 0, last |-> "new", arg |-> RNum(0, 1)]
    /\ result' = F32ColorNew
    /\ UNCHANGED <<bvhVars, shadeVars>>

\* let mut c = Color::init(r, g, b);
CallColorInit(r, g, b) ==
    /\ call = NoCall
    /\ call' = [fn |-> "Color", ops |-> 0, last |-> "init", arg |-> r]
    /\ result' = F32ColorInit(r, g, b)
    /\ UNCHANGED <<bvhVars, shadeVars>>

\* A further method is called on the Color value c.
ColorLive == call.fn = "Color" /\ call.ops < MaxColorOps

ColorMethod(name, arg) == [call EXCEPT !.ops = @ + 1, !.last = name, !.arg = arg]

\* c.r(x);  c.g(x);  c.b(x);
CallColorSet(i, x) ==
    /\ ColorLive
    /\ call' = ColorMethod(<<"r", "g", "b">>[i], x)
    /\ result' = [result EXCEPT ![i] = ChanSet(x)]
    /\ UNCHANGED <<bvhVars, shadeVars>>

\* c = c.mult(num);
CallColorMult(num) ==
    /\ ColorLive
    /\ call' = ColorMethod("mult", num)
    /\ result' = F32ColorMult(result, num)
    /\ UNCHANGED <<bvhVars, shadeVars>>

\* c = c * col;
CallColorMul(col) ==
    /\ ColorLive
    /\ call' = ColorMethod("mul", col[1])
    /\ result' = F32ColorMul(result, col)
    /\ UNCHANGED <<bvhVars, shadeVars>>

\* c = c + col;
CallColorAdd(col) ==
    /\ ColorLive
    /\ call' = ColorMethod("add", col[1])
    /\ result' = F32ColorAdd(result, col)
    /\ UNCHANGED <<bvhVars, shadeVars>>

(***************************************************************************)
(* RayTracer::trace_rays (lib.rs).  The image is the bmp crate's; the      *)
(* model keeps what trace_rays asks of it: the set_pixel calls, in order.  *)
(***************************************************************************)
\* The largest width and height of an image.
MaxSide == 3

\* The normalised coordinates of RayTracer::compute_ray:
\* (x * (1.0 / width), y * (1.0 / height))
ComputeRay(width, height, x, y) == <<Rat(x, width), Rat(y, height)>>

\* trace_rays, lines 303-307: Image::new(self.width, self.height), and the
\* loops start at y = 0, x = 0.
CallTraceRays(width, height) ==
    /\ call = NoCall
    /\ call' = [fn |-> "trace_rays", width |-> width, height |-> height, x |-> 0, y |-> 0]
    /\ result' = [rays |-> <<>>, set_pixel |-> <<>>]
    /\ UNCHANGED <<bvhVars, shadeVars>>

\* The loops of trace_rays still have a pixel to trace:
\* for y in range(0, self.width) { for x in range(0, self.height) { ... } }
TraceRaysLive == call.fn = "trace_rays" /\ call.y < call.width /\ call.x < call.height

\* trace_rays, lines 309-316: one turn of the inner loop.  The ray of
\* (x, y) is computed and cast; on a hit the shaded colour is written with
\* img.set_pixel(x, y, ...).  Then x, and at the end of a row y, moves on.
TraceRaysPixel(hit) ==
    /\ TraceRaysLive
    /\ result' = [rays |-> Append(result.rays,
                                  [x |-> call.x, y |-> call.y,
                                   dir |-> ComputeRay(call.width, call.height, call.x, call.y)]),
                  set_pixel |-> IF hit THEN Append(result.set_pixel, <<call.x, call.y>>)
                                ELSE result.set_pixel]
    /\ call' = IF call.x + 1 < call.height
               THEN [call EXCEPT !.x = @ + 1]
               ELSE [call EXCEPT !.x = 0, !.y = @ + 1]
    /\ UNCHANGED <<bvhVars, shadeVars>>

(***************************************************************************)
(* The colour and the normal of a triangle at a point                      *)
(* (scene/shapes/poly_mesh.rs; scene/shapes/poly.rs has the same           *)
(* weighted_areas).  Areas are exact where the cross products have         *)
(* integer lengths.                                                        *)
(***************************************************************************)
\* Vec3::length of a vector of integers whose length is an integer
VLength(v) == Sqrt(VDot(v, v))

\* Vec3::get_area: ab.cross(ac).length() * 0.5
GetArea(a, b, c) == Rat(VLength(VCross(VSub(b, a), VSub(c, a))), 2)

\* a / b on f32 for areas a, b >= 0: 0 / 0 is a NaN, a / 0 is infinite
AreaDiv(a, b) ==
    IF b # RZero THEN Num(Rat(a[1] * b[2], a[2] * b[1]))
    ELSE IF a = RZero THEN RNaN ELSE RPInf

PolyPanicked == [kind |-> "Panic"]

\* Poly::weighted_areas
WeightedAreas(poly, point) ==
    LET area == GetArea(poly.x, poly.y, poly.z)
        area0 == AreaDiv(GetArea(poly.x, poly.y, point), area)
        area1 == AreaDiv(GetArea(poly.z, poly.x, point), area)
        area2 == AreaDiv(GetArea(poly.y, poly.z, point), area)
    IN  IF ChanLt(RNum(1, 1), area0) \/ ChanLt(RNum(1, 1), area1) \/ ChanLt(RNum(1, 1), area2)
        THEN PolyPanicked
        ELSE [kind |-> "Areas", a |-> <<area0, area1, area2>>]

\* The diffuse colours of the materials of the vertices x, y, z, and the
\* normals of the vertices.
VertexDiffuse ==
    [x |-> F32ColorInit(RNum(1, 1), RNum(0, 1), RNum(0, 1)),
     y |-> F32ColorInit(RNum(0, 1), RNum(1, 1), RNum(0, 1)),
     z |-> F32ColorInit(RNum(0, 1), RNum(0, 1), RNum(1, 1))]
VertexNormal == [x |-> <<0, 0, 1>>, y |-> <<0, 1, 0>>, z |-> <<1, 0, 0>>]

\* The colour, and the vector, that three weights give.
WeightedColor(a) ==
    F32ColorAdd(F32ColorAdd(F32ColorMult(VertexDiffuse.x, a[3]),
                            F32ColorMult(VertexDiffuse.y, a[2])),
                F32ColorMult(VertexDiffuse.z, a[1]))
WeightedNormal(a) ==
    [i \in 1..3 |->
        ChanAdd(ChanAdd(ChanMul(RNum(VertexNormal.x[i], 1), a[3]),
                        ChanMul(RNum(VertexNormal.y[i], 1), a[2])),
                ChanMul(RNum(VertexNormal.z[i], 1), a[1]))]

\* Poly::interpolated_color, which is all of Poly::diffuse_color
InterpolatedColor(poly, point) ==
    LET w == WeightedAreas(poly, point)
    IN  IF w = PolyPanicked THEN PolyPanicked
        ELSE [kind |-> "Color", val |-> WeightedColor(w.a)]

\* Poly::interpolated_normal of a triangle whose vertices have normals
InterpolatedNormal(poly, point) ==
    LET w == WeightedAreas(poly, point)
    IN  IF w = PolyPanicked THEN PolyPanicked
        ELSE [kind |-> "Normal", val |-> WeightedNormal(w.a)]

\* The points a triangle is asked about: inside, on the boundary and outside.
AreaPoints == { <<x, y, z>> : x \in -1..3, y \in -1..3, z \in {0, -2} }

\* The areas at a point are exact.
ExactAreas(poly, point) ==
    LET sq(a, b, c) == LET cr == VCross(VSub(b, a), VSub(c, a)) IN IsSquare(VDot(cr, cr))
    IN  /\ sq(poly.x, poly.y, poly.z) /\ sq(poly.x, poly.y, point)
        /\ sq(poly.z, poly.x, point) /\ sq(poly.y, poly.z, point)

\* Poly::diffuse_color
CallDiffuseColor(poly, point) ==
    /\ call = NoCall
    /\ ExactAreas(poly, point)
    /\ call' = [fn |-> "Poly::diffuse_color", poly |-> poly, point |-> point]
    /\ result' = InterpolatedColor(poly, point)
    /\ UNCHANGED <<bvhVars, shadeVars>>

\* Poly::interpolated_normal
CallInterpolatedNormal(poly, point) ==
    /\ call = NoCall
    /\ ExactAreas(poly, point)
    /\ call' = [fn |-> "Poly::interpolated_normal", poly |-> poly, point |-> point]
    /\ result' = InterpolatedNormal(poly, point)
    /\ UNCHANGED <<bvhVars, shadeVars>>

(***************************************************************************)
(* Sampling an Area light (scene/mod.rs, lib.rs).  A draw of               *)
(* random::<Open01<f32>>() is any number strictly between 0 and 1.         *)
(***************************************************************************)
Draws == {Rat(1, 4), Rat(1, 2), Rat(3, 4)}
Draws3 == { <<rx, ry, rz>> : rx \in Draws, ry \in Draws, rz \in Draws }

\* One axis of a sample, for the coordinates a and b of the two corners and
\* the draw r:  let mut dx = (a - b).abs() * 0.5;  dx = dx - rx * (dx * 2.0);
\* the sample is a + dx.
SampleAxis(a, b, r) ==
    LET dx == Rat(Abs(a - b), 2)
    IN  RAdd(Rat(a, 1), RSub(dx, RMul(r, RMul(dx, Rat(2, 1)))))

\* AreaLight::sample_point: the corner the offsets are added to is max.
SamplePoint(light, r) == [i \in 1..3 |-> SampleAxis(light.max[i], light.min[i], r[i])]

\* The sample target of shadow_scalar and direct_lightning: the corner the
\* offsets are added to is light.pos, the first position of the light, and
\* light.dir is the second.
SampleTarget(light, r) == [i \in 1..3 |-> SampleAxis(light.pos[i], light.dir[i], r[i])]

\* AreaLight { min, max, .. }, as the parser fills it: min is the first
\* position and max the second.  The older Light names them pos and dir.
AreaLightInit(min, max) == [kind |-> "AreaLight", min |-> min, max |-> max, pos |-> min, dir |-> max]

\* The extents of Area lights: a point, segments, rectangles and boxes with
\* min <= max on every axis.
Extents ==
    LET axis == {<<0, 0>>, <<0, 12>>, <<-2, 2>>}
    IN  { AreaLightInit(<<x[1], y[1], z[1]>>, <<x[2], y[2], z[2]>>) :
            x \in axis, y \in axis, z \in axis }

\* AreaLight::sample_point
CallSamplePoint(light, r) ==
    /\ call = NoCall
    /\ call' = [fn |-> "AreaLight::sample_point", light |-> light, r |-> r]
    /\ result' = SamplePoint(light, r)
    /\ UNCHANGED <<bvhVars, shadeVars>>

\* One sample target of shadow_scalar (lines 127-136) or direct_lightning
\* (lines 219-228)
CallSampleTarget(light, r) ==
    /\ call = NoCall
    /\ call' = [fn |-> "sample_target", light |-> light, r |-> r]
    /\ result' = SampleTarget(light, r)
    /\ UNCHANGED <<bvhVars, shadeVars>>

(***************************************************************************)
(* Tracing one pixel of a small scene (lib.rs): the camera ray hits a      *)
(* matte floor at the origin, whose normal is (0, 1, 0); an opaque         *)
(* triangle hangs at height 2 over the half x >= 0; one light is at        *)
(* height 4.  Directions are left unnormalised, which changes no hit into  *)
(* a miss, and the offset 0.0001 of a shadow ray's origin is left out.     *)
(***************************************************************************)
FloorPoint == <<0, 0, 0>>
Occluder == PolyInit(<<0, 2, 0>>, <<3, 2, 3>>, <<3, 2, -3>>)

\* The lights of the scene: a Point light over the floor point, and an Area
\* light whose two positions are (0, 4, 0) and (12, 4, 0).
PixelLights ==
    { [kind |-> "PointLight", pos |-> <<0, 4, 0>>, dir |-> <<0, 0, 0>>],
      AreaLightInit(<<0, 4, 0>>, <<12, 4, 0>>) }

\* The draws of one sample: the y and z extents of the light are empty.
PixelDraws == { <<rx, Rat(1, 2), Rat(1, 2)>> : rx \in Draws }

\* A vector of rationals that are integers, as a vector of integers.
IntVec(v) == <<v[1][1], v[2][1], v[3][1]>>

\* One turn of the loop of shadow_scalar, lines 146-163, for the shadow ray
\* towards target: 1 in direct light, and what an opaque occluder gives.
\* The hit is t of the way to the target, so it is behind the target when t > 1.
ShadowTerm(light, target) ==
    LET hit == PolyIntersects(Occluder, RayInit(FloorPoint, VSub(target, FloorPoint)))
    IN  IF hit.kind = "Hit" THEN OpaqueShade(light.kind, hit.p[1], hit.p[2]) ELSE ROne

\* The sum of the shadow terms of the draws rs
RECURSIVE ShadowSum(_, _, _)
ShadowSum(light, rs, i) ==
    IF i > Len(rs) THEN RZero
    ELSE RAdd(ShadowTerm(light, IntVec(SampleTarget(light, rs[i]))), ShadowSum(light, rs, i + 1))

\* RayTracer::shadow_scalar at depth 1: one ray towards a Point light, one
\* ray for each of the num_samples draws rs towards an Area light.
ShadowScalar(light, rs) ==
    IF light.kind = "PointLight"
    THEN Gray(ShadowTerm(light, light.pos))
    ELSE Gray(RDivInt(ShadowSum(light, rs, 1), Len(rs)))

\* normal.dot(dj) for the direction to a sample target: 1 straight up,
\* 4/5 towards (3, 4, 0) and (-3, 4, 0).
TargetCosine(target) == IF target[1] = 0 THEN ROne ELSE Rat(4, 5)

\* RayTracer::shade_intersection at depth 1 for the floor point: the floor
\* is matte, so no reflected or refracted ray is cast.  rs are the draws of
\* shadow_scalar; the draws of direct_lightning all come out as rd.
PixelColor(light, num_samples, rs, rd) ==
    LET m == Materials["matte"]
        ambient_light == AmbientLightning(m.transparency, m.ambient, m.diffuse)
        direct_light(shadow_scalar, fattj, nl) ==
            ColorAdd(ColorNew,
                     DirectLightning(light.kind, m, shadow_scalar, fattj,
                                     num_samples, nl, RZero))
        color(direct) ==
            ColorAdd(ColorAdd(ColorAdd(direct, ambient_light), ColorNew), ColorNew)
    IN  CHOOSE c \in
            { color(direct) :
                direct \in { direct_light(shadow_scalar, fattj, nl) :
                               shadow_scalar \in {ShadowScalar(light, rs)},
                               fattj \in {CalculateFattj(light.kind, 4)},
                               nl \in {IF light.kind = "PointLight" THEN ROne
                                       ELSE TargetCosine(IntVec(SampleTarget(light, rd)))} } } :
            TRUE

\* The pixel is traced.
CallTracePixel(light, num_samples, rs, rd) ==
    /\ call = NoCall
    /\ call' = [fn |-> "trace_pixel", light |-> light, num_samples |-> num_samples]
    /\ result' = <<PixelColor(light, num_samples, rs, rd)>>
    /\ UNCHANGED <<bvhVars, shadeVars>>

\* The same pixel of the same scene is traced once more.
TracePixelAgain(rs, rd) ==
    /\ call.fn = "trace_pixel"
    /\ Len(result) = 1
    /\ Len(rs) = call.num_samples
    /\ call' = call
    /\ result' = Append(result, PixelColor(call.light, call.num_samples, rs, rd))
    /\ UNCHANGED <<bvhVars, shadeVars>>

(***************************************************************************)
(* SceneParser (scene/parser/mod.rs).  The file is its sequence of tokens  *)
(* and whether whitespace follows the last of them.  A parser p is the     *)
(* fields of SceneParser, the number pos of tokens read from the file, and *)
(* ok, which is false once a panic has aborted the parse.                  *)
(***************************************************************************)
\* SceneParser::new
ParserNew(toks, ws) ==
    [toks |-> toks, ws |-> ws, pos |-> 0, finished |-> FALSE, peaked |-> FALSE,
     last_token |-> None, ok |-> TRUE]

ParserPanic(p) == [p EXCEPT !.ok = FALSE]

\* SceneParser::has_next_token
HasNextToken(p) == ~p.finished

\* SceneParser::next_token: the token kept by peak, or the next token of
\* the file.  Reading a token that ends at the end of the file, or reading
\* at the end of the file (which gives the empty token), sets finished.
NextToken(p) ==
    IF p.peaked
    THEN IF p.last_token.some
         THEN [tkn |-> p.last_token.val, p |-> [p EXCEPT !.last_token = None, !.peaked = FALSE]]
         ELSE [tkn |-> "", p |-> ParserPanic(p)]
    ELSE IF p.pos < Len(p.toks)
    THEN [tkn |-> p.toks[p.pos + 1],
          p |-> [p EXCEPT !.pos = @ + 1,
                          !.finished = (p.pos + 1 = Len(p.toks) /\ ~p.ws)]]
    ELSE [tkn |-> "", p |-> [p EXCEPT !.finished = TRUE]]

\* SceneParser::peak
Peak(p) ==
    IF p.peaked
    THEN IF p.last_token.some
         THEN [tkn |-> p.last_token.val, p |-> p]
         ELSE [tkn |-> "", p |-> ParserPanic(p)]
    ELSE LET n == NextToken(p)
         IN  [tkn |-> n.tkn, p |-> [n.p EXCEPT !.last_token = Some(n.tkn), !.peaked = TRUE]]

\* The tokens that parse as a number, and their values.
NumTokens == {"0", "1", "2", "3"}
NumValue(t) == CASE t = "0" -> 0 [] t = "1" -> 1 [] t = "2" -> 2 [] OTHER -> 3

\* SceneParser::next_num
NextNum(p) ==
    LET n == NextToken(p)
    IN  IF n.tkn \in NumTokens THEN [v |-> NumValue(n.tkn), p |-> n.p]
        ELSE [v |-> 0, p |-> ParserPanic(n.p)]

\* SceneParser::consume_next
ConsumeNext(p) == NextToken(p).p

\* SceneParser::check_and_consume
CheckAndConsume(p, token) ==
    LET n == NextToken(p)
    IN  IF n.tkn = token THEN n.p ELSE ParserPanic(n.p)

\* A run of calls in a row, stopped by the first panic: "#num" stands for
\* next_num, "#any" for consume_next, any other item for check_and_consume
\* of that token.
RECURSIVE Consume(_, _)
Consume(p, items) ==
    IF ~p.ok \/ items = <<>> THEN p
    ELSE LET item == Head(items)
             one(v) == CASE item = "#num" -> NextNum(v).p
                         [] item = "#any" -> ConsumeNext(v)
                         [] OTHER -> CheckAndConsume(v, item)
         IN  CHOOSE r \in { Consume(q, Tail(items)) : q \in { one(v) : v \in {p} } } : TRUE

\* SceneParser::parse_f32, parse_vec3, parse_color: what they consume
F32Items(name) == <<name, "#num">>
Vec3Items(name) == <<name, "#num", "#num", "#num">>

ParseF32(p, name) == Consume(p, F32Items(name))
ParseVec3(p, name) == Consume(p, Vec3Items(name))
ParseColor(p, color) == Consume(p, Vec3Items(color))

\* SceneParser::parse_bool
ParseBool(p, name, flag) ==
    LET value(q) == IF q.ok THEN [v |-> NextToken(q).tkn = flag, p |-> NextToken(q).p]
                    ELSE [v |-> FALSE, p |-> q]
    IN  CHOOSE b \in { value(q) : q \in {Consume(p, <<name>>)} } : TRUE

\* SceneParser::parse_light
ParseLight(p) ==
    LET fields(kind, q) ==
            CASE kind = "point_light" ->
                    ParseColor(ParseVec3(q, "position"), "color")
              [] kind = "area_light" ->
                    ParseColor(ParseVec3(ParseVec3(q, "position"), "position"), "color")
              [] kind = "directional_light" ->
                    ParseColor(ParseVec3(q, "direction"), "color")
              [] OTHER -> ParserPanic(q)
        close(body) == Consume(body, <<"}">>)
        open(k) ==
            CHOOSE r \in
                { close(body) :
                    body \in { fields(k.tkn, q) : q \in {Consume(k.p, <<"{">>)} } } : TRUE
    IN  CHOOSE r \in { open(k) : k \in {NextToken(p)} } : TRUE

\* SceneParser::parse_material
ParseMaterial(p) ==
    Consume(p, <<"material", "{">> \o Vec3Items("diffColor") \o Vec3Items("ambColor")
               \o Vec3Items("specColor") \o Vec3Items("emisColor")
               \o F32Items("shininess") \o F32Items("ktran") \o <<"}">>)

\* while num_materials > 0 { self.parse_material(); num_materials -= 1; }
RECURSIVE ParseMaterials(_, _)
ParseMaterials(p, num_materials) ==
    IF ~p.ok \/ num_materials <= 0 THEN p
    ELSE CHOOSE r \in { ParseMaterials(q, num_materials - 1) : q \in {ParseMaterial(p)} } : TRUE

\* SceneParser::parse_sphere
ParseSphere(p) ==
    LET materials(q) ==
            IF q.ok
            THEN CHOOSE r \in { ParseMaterials(num_materials.p, num_materials.v) :
                                  num_materials \in {NextNum(q)} } : TRUE
            ELSE q
        shape(r) ==
            Consume(r, Vec3Items("origin") \o F32Items("radius")
                       \o Vec3Items("xaxis") \o F32Items("xlength")
                       \o Vec3Items("yaxis") \o F32Items("ylength")
                       \o Vec3Items("zaxis") \o F32Items("zlength") \o <<"}">>)
    IN  CHOOSE s \in
            { shape(r) :
                r \in { materials(q) :
                          q \in {Consume(p, <<"sphere", "{", "name", "#any",
                                              "numMaterials">>)} } } : TRUE

\* SceneParser::parse_vertex: the material index of the vertex
ParseVertex(p, has_normal, has_material) ==
    LET normal(q) == IF has_normal THEN ParseVec3(q, "norm") ELSE q
        number(s) ==
            IF s.ok
            THEN CHOOSE v \in { [mat_index |-> mat_index.v, p |-> mat_index.p] :
                                  mat_index \in {NextNum(s)} } : TRUE
            ELSE [mat_index |-> 0, p |-> s]
        index(r) ==
            IF ~has_material THEN [mat_index |-> 0, p |-> r]
            ELSE CHOOSE v \in { number(s) : s \in {Consume(r, <<"materialIndex">>)} } : TRUE
    IN  CHOOSE v \in { index(r) : r \in { normal(q) : q \in {ParseVec3(p, "pos")} } } : TRUE

\* SceneParser::parse_poly: the material indices of the three vertices
ParsePoly(p, has_normal, has_material) ==
    LET failed(q) == [mat_index |-> <<0, 0, 0>>, p |-> q]
        close(v0, v1, v2) ==
            IF ~v2.p.ok THEN failed(v2.p)
            ELSE [mat_index |-> <<v0.mat_index, v1.mat_index, v2.mat_index>>,
                  p |-> Consume(v2.p, <<"}">>)]
        third(v0, v1) ==
            IF ~v1.p.ok THEN failed(v1.p)
            ELSE CHOOSE r \in { close(v0, v1, v2) :
                                  v2 \in {ParseVertex(v1.p, has_normal, has_material)} } : TRUE
        second(v0) ==
            IF ~v0.p.ok THEN failed(v0.p)
            ELSE CHOOSE r \in { third(v0, v1) :
                                  v1 \in {ParseVertex(v0.p, has_normal, has_material)} } : TRUE
        first(q) ==
            IF ~q.ok THEN failed(q)
            ELSE CHOOSE r \in { second(v0) :
                                  v0 \in {ParseVertex(q, has_normal, has_material)} } : TRUE
    IN  CHOOSE r \in { first(q) :
                         q \in {Consume(p, <<"poly", "{", "numVertices", "#any">>)} } : TRUE

\* The loop of parse_polyset, lines 264-295: each polygon is parsed and
\* given its materials; materials[i] panics for an index i that is not
\* below the number of materials.
RECURSIVE ParsePolys(_, _, _, _, _)
ParsePolys(p, num_polys, num_materials, per_vertex_normal, material_binding) ==
    IF ~p.ok \/ num_polys <= 0 THEN p
    ELSE LET bound(poly) ==
                 LET i0 == poly.mat_index[1]
                     i1 == poly.mat_index[2]
                     i2 == poly.mat_index[3]
                     used == IF material_binding
                             THEN {i0} \cup (IF i1 # i0 THEN {i1} ELSE {})
                                       \cup (IF i2 # i1 /\ i2 # i0 THEN {i2} ELSE {})
                             ELSE {0}
                 IN  IF ~poly.p.ok THEN poly.p
                     ELSE IF \E i \in used : i >= num_materials THEN ParserPanic(poly.p)
                     ELSE ParsePolys(poly.p, num_polys - 1, num_materials,
                                     per_vertex_normal, material_binding)
         IN  CHOOSE r \in { bound(poly) :
                              poly \in {ParsePoly(p, per_vertex_normal,
                                                  material_binding)} } : TRUE

\* SceneParser::parse_polyset: the number of polygons of the set
ParsePolyset(p) ==
    LET set(num_polys, u) ==
            [len |-> IF u.ok THEN num_polys.v ELSE 0, p |-> Consume(u, <<"}">>)]
        polys(t, num_materials, per_vertex_normal, material_binding, num_polys) ==
            CHOOSE r \in
                { set(num_polys, u) :
                    u \in { IF t.ok
                            THEN ParsePolys(num_polys.p, num_polys.v, num_materials.v,
                                            per_vertex_normal.v, material_binding.v)
                            ELSE t } } : TRUE
        counted(num_materials, per_vertex_normal, material_binding) ==
            CHOOSE r \in
                { CHOOSE x \in
                      { polys(t, num_materials, per_vertex_normal, material_binding,
                              num_polys) : num_polys \in {NextNum(t)} } : TRUE :
                    t \in {Consume(material_binding.p,
                                   <<"hasTextureCoords", "#any", "rowSize", "#any",
                                     "numPolys">>)} } : TRUE
        bindings(num_materials, per_vertex_normal) ==
            CHOOSE r \in
                { counted(num_materials, per_vertex_normal, material_binding) :
                    material_binding \in {ParseBool(per_vertex_normal.p, "materialBinding",
                                                    "PER_VERTEX_MATERIAL")} } : TRUE
        normals(num_materials, s) ==
            CHOOSE x \in
                { bindings(num_materials, per_vertex_normal) :
                    per_vertex_normal \in {ParseBool(s, "normType",
                                                     "PER_VERTEX_NORMAL")} } : TRUE
        typed(num_materials, r) ==
            CHOOSE x \in
                { normals(num_materials, s) : s \in {Consume(r, <<"type", "#any">>)} } : TRUE
        materials(q, num_materials) ==
            CHOOSE x \in
                { typed(num_materials, r) :
                    r \in { IF q.ok
                            THEN ParseMaterials(num_materials.p, num_materials.v)
                            ELSE q } } : TRUE
        named(q) ==
            CHOOSE x \in { materials(q, num_materials) :
                             num_materials \in {NextNum(q)} } : TRUE
    IN  CHOOSE x \in
            { named(q) :
                q \in {Consume(p, <<"poly_set", "{", "name", "#any",
                                    "numMaterials">>)} } : TRUE

\* SceneParser::parse_camera
ParseCamera(p) ==
    Consume(p, <<"camera", "{">> \o Vec3Items("position") \o Vec3Items("viewDirection")
               \o F32Items("focalDistance") \o Vec3Items("orthoUp")
               \o F32Items("verticalFOV") \o <<"}">>)

\* Scene::new: the scene counts what is put in it.
SceneNew == [camera |-> 0, primitives |-> 0, lights |-> 0]

EndsWithLight(tkn) == tkn \in {"light", "point_light", "area_light", "directional_light", "spot_light"}

\* One turn of the loop of parse_scene, lines 432-451, with tkn the token
\* last peaked at: the block tkn names is parsed and the next token peaked at.
ParseSceneTurn(p, scene, tkn) ==
    LET added(polyset) ==
            [p |-> polyset.p, scene |-> [scene EXCEPT !.primitives = @ + polyset.len]]
        step == CASE tkn = "camera" ->
                       [p |-> ParseCamera(p), scene |-> [scene EXCEPT !.camera = @ + 1]]
                 [] tkn = "sphere" ->
                       [p |-> ParseSphere(p), scene |-> [scene EXCEPT !.primitives = @ + 1]]
                 [] tkn = "poly_set" ->
                       CHOOSE s \in { added(polyset) : polyset \in {ParsePolyset(p)} } : TRUE
                 [] EndsWithLight(tkn) ->
                       [p |-> ParseLight(p), scene |-> [scene EXCEPT !.lights = @ + 1]]
                 [] OTHER -> [p |-> ParserPanic(p), scene |-> scene]
        peaked(s) ==
            IF ~s.p.ok THEN [kind |-> "Panic", p |-> s.p]
            ELSE CHOOSE r \in { [kind |-> "Loop", p |-> next.p, scene |-> s.scene,
                                 tkn |-> next.tkn] : next \in {Peak(s.p)} } : TRUE
    IN  CHOOSE r \in { peaked(s) : s \in {step} } : TRUE

\* SceneParser::parse_scene up to its loop, lines 423-430
ParseScene(toks, ws) ==
    LET first(p) ==
            IF ~p.ok THEN [kind |-> "Panic", p |-> p]
            ELSE CHOOSE r \in { [kind |-> "Loop", p |-> tkn.p, scene |-> SceneNew,
                                 tkn |-> tkn.tkn] : tkn \in {Peak(p)} } : TRUE
    IN  CHOOSE r \in
            { first(p) :
                p \in {Consume(ParserNew(toks, ws),
                               <<"Composer", "format", "2.1", "ascii">>)} } : TRUE

(***************************************************************************)
(* The scene files the parser is given: scenes of up to two blocks, and    *)
(* files that are not scenes.                                              *)
(***************************************************************************)
HeaderTokens == <<"Composer", "format", "2.1", "ascii">>
Vec3Tokens(name) == <<name, "1", "1", "1">>
CameraTokens ==
    <<"camera", "{">> \o Vec3Tokens("position") \o Vec3Tokens("viewDirection")
    \o <<"focalDistance", "1">> \o Vec3Tokens("orthoUp") \o <<"verticalFOV", "1", "}">>
PointLightTokens ==
    <<"point_light", "{">> \o Vec3Tokens("position") \o Vec3Tokens("color") \o <<"}">>
AreaLightTokens ==
    <<"area_light", "{">> \o Vec3Tokens("position") \o Vec3Tokens("position")
    \o Vec3Tokens("color") \o <<"}">>
DirectionalLightTokens ==
    <<"directional_light", "{">> \o Vec3Tokens("direction") \o Vec3Tokens("color") \o <<"}">>
MaterialTokens ==
    <<"material", "{">> \o Vec3Tokens("diffColor") \o Vec3Tokens("ambColor")
    \o Vec3Tokens("specColor") \o Vec3Tokens("emisColor")
    \o <<"shininess", "1", "ktran", "0", "}">>
SphereTokens ==
    <<"sphere", "{", "name", "x", "numMaterials", "1">> \o MaterialTokens
    \o Vec3Tokens("origin") \o <<"radius", "1">>
    \o Vec3Tokens("xaxis") \o <<"xlength", "1">>
    \o Vec3Tokens("yaxis") \o <<"ylength", "1">>
    \o Vec3Tokens("zaxis") \o <<"zlength", "1", "}">>
PolySetTokens ==
    <<"poly_set", "{", "name", "x", "numMaterials", "1">> \o MaterialTokens
    \o <<"type", "x", "normType", "PER_FACE_NORMAL", "materialBinding", "PER_OBJECT_MATERIAL",
         "hasTextureCoords", "x", "rowSize", "x", "numPolys", "1">>
    \o <<"poly", "{", "numVertices", "x">>
    \o Vec3Tokens("pos") \o Vec3Tokens("pos") \o Vec3Tokens("pos") \o <<"}", "}">>

BlockTokens ==
    {CameraTokens, PointLightTokens, AreaLightTokens, DirectionalLightTokens,
     SphereTokens, PolySetTokens}

\* Scenes of no block, one block, two blocks.
OneBlockScenes == { HeaderTokens \o b : b \in BlockTokens \cup {<<>>} }
SceneStreams == { s \o b : s \in OneBlockScenes, b \in BlockTokens \cup {<<>>} }

\* The tokens a scene may have anything in place of.
FreeTokens == {"x", "PER_FACE_NORMAL", "PER_OBJECT_MATERIAL"}

\* Files that are not scenes: a scene followed by a token that opens no
\* complete block, a scene with one of its keywords or numbers replaced,
\* and a scene cut off inside a block.
MalformedStreams ==
    { s \o <<j>> : s \in OneBlockScenes, j \in {"bogus", "sphere", "spot_light"} }
    \cup UNION { { [s EXCEPT ![i] = "bogus"] : i \in { k \in 1..Len(s) : s[k] \notin FreeTokens } } :
                 s \in OneBlockScenes }
    \cup UNION { { SubSeq(s, 1, n) : n \in 5..(Len(s) - 1) } : s \in OneBlockScenes }

TokenStreams == SceneStreams \cup MalformedStreams

\* SceneParser::new on a file, and parse_scene up to its loop
CallParseScene(toks, ws) ==
    /\ call = NoCall
    /\ call' = [fn |-> "parse_scene", toks |-> toks, ws |-> ws]
    /\ result' = ParseScene(toks, ws)
    /\ UNCHANGED <<bvhVars, shadeVars>>

\* The loop of parse_scene, lines 431-453: parse_scene returns the scene
\* when has_next_token is false, and takes a turn of the loop otherwise.
ParseSceneLoop ==
    /\ call.fn = "parse_scene"
    /\ result.kind = "Loop"
    /\ call' = call
    /\ result' = IF ~HasNextToken(result.p)
                 THEN [kind |-> "Scene", scene |-> result.scene, p |-> result.p]
                 ELSE ParseSceneTurn(result.p, result.scene, result.tkn)
    /\ UNCHANGED <<bvhVars, shadeVars>>

\* The spheres Sphere::intersects is called on: those of the scenes, the
\* unit sphere at (0, 0, -5), and one whose surface holds the origin of a ray.
TestSpheres == Spheres \cup {SphereInit(<<0, 0, -5>>, 1), SphereInit(<<0, 0, -1>>, 1)}

\* Sphere::intersects
CallSphereIntersects(s, r) ==
    /\ call = NoCall
    /\ Exact(<<s>>, r)
    /\ call' = [fn |-> "Sphere::intersects", sphere |-> s, ray |-> r]
    /\ result' = SphereIntersects(s, r)
    /\ UNCHANGED <<bvhVars, shadeVars>>

(***************************************************************************)
(* The camera (lib.rs 69-103).  Angles are rational multiples of pi; the   *)
(* camera's vectors are integer vectors, the ray direction a vector of     *)
(* rationals.                                                              *)
(***************************************************************************)
SCALE == 1000

\* Vec3::normalize on an integer vector whose length is an integer
Normalize(v) ==
    LET len == VLength(v)
    IN  IF len # 0 THEN <<v[1] \div len, v[2] \div len, v[3] \div len>> ELSE v

\* (fov / 2.0).tan() for fov a multiple q of pi: tan(pi / 4) = 1
TanHalf(q) == IF q = Rat(1, 2) THEN 1 ELSE 0

RVec(v) == <<Rat(v[1], 1), Rat(v[2], 1), Rat(v[3], 1)>>
RVAdd(a, b) == <<RAdd(a[1], b[1]), RAdd(a[2], b[2]), RAdd(a[3], b[3])>>
RVSub(a, b) == <<RSub(a[1], b[1]), RSub(a[2], b[2]), RSub(a[3], b[3])>>
RVMult(a, n) == <<RMul(a[1], n), RMul(a[2], n), RMul(a[3], n)>>
RVDot(a, b) == RAdd(RAdd(RMul(a[1], b[1]), RMul(a[2], b[2])), RMul(a[3], b[3]))

\* RayTracer::init and set_scene: setup_camera, lines 69-83
SetupCamera(cam, width, height) ==
    LET right == VCross(cam.view_dir, cam.ortho_up)
        up == VCross(right, cam.view_dir)
    IN  [width |-> width, height |-> height,
         parallel_right |-> Normalize(right),
         parallel_up |-> Normalize(up),
         vertical_fov |-> cam.vertical_fov,
         horizontal_fov |-> RMul(cam.vertical_fov, Rat(width, height)),
         camera_pos |-> cam.pos,
         center |-> VAdd(cam.pos, VMult(cam.view_dir, SCALE))]

\* RayTracer::vertical_plane, horizontal_plane
VerticalPlane(rt) == VMult(rt.parallel_up, TanHalf(rt.vertical_fov) * SCALE)
HorizontalPlane(rt) == VMult(rt.parallel_right, TanHalf(rt.horizontal_fov) * SCALE)

\* The offsets dx and dy of compute_ray, lines 96-98
PlaneDx(rt, x) ==
    RVMult(RVec(HorizontalPlane(rt)), RSub(RMul(Rat(2, 1), Rat(x, rt.width)), ROne))
PlaneDy(rt, y) ==
    RVMult(RVec(VerticalPlane(rt)), RSub(RMul(Rat(2, 1), Rat(y, rt.height)), ROne))

\* RayTracer::compute_ray, lines 95-102.  dir.normalize() divides dir by
\* its length, the square root of len2, when that is not 0.
CameraRay(rt, x, y) ==
    LET sum(dx, dy) == RVAdd(RVAdd(RVec(rt.center), dx), dy)
        normalized(dir) == [ori |-> rt.camera_pos, dir |-> dir, len2 |-> RVDot(dir, dir)]
    IN  CHOOSE r \in { normalized(dir) :
                         dir \in { sum(dx, dy) : dx \in {PlaneDx(rt, x)},
                                                 dy \in {PlaneDy(rt, y)} } } : TRUE

\* The cameras: at the origin and away from it, looking along -z and
\* along x, with view directions of length 1 and 2; vertical_fov = pi / 2.
Cameras ==
    { [pos |-> pos, view_dir |-> view_dir, ortho_up |-> <<0, 1, 0>>,
       vertical_fov |-> Rat(1, 2)] :
        pos \in {<<0, 0, 0>>, <<0, 0, 5>>, <<1, 2, 3>>},
        view_dir \in {<<0, 0, -1>>, <<0, 0, -2>>, <<1, 0, 0>>} }

\* RayTracer::init(side, side, ..), set_scene and compute_ray(x, y)
CallComputeRay(cam, side, x, y) ==
    /\ call = NoCall
    /\ x < side /\ y < side
    /\ call' = [fn |-> "compute_ray", cam |-> cam, rt |-> SetupCamera(cam, side, side),
                x |-> x, y |-> y]
    /\ result' = CameraRay(SetupCamera(cam, side, side), x, y)
    /\ UNCHANGED <<bvhVars, shadeVars>>

(***************************************************************************)
(* Intersection (scene/intersection.rs) with its geometry: an intersection *)
(* is the hit distance, the ray and the primitive.  A primitive is a       *)
(* Sphere, a Poly or a MeshPoly (scene/shapes/mod.rs); the triangles have  *)
(* no vertex normals.  Inputs are such that the normals have rational      *)
(* components.                                                             *)
(***************************************************************************)
SpherePrim(s) == [variant |-> "Sphere", sphere |-> s]
PolyPrim(poly) == [variant |-> "Poly", poly |-> poly]
MeshPolyPrim(poly) == [variant |-> "MeshPoly", poly |-> poly]

\* Vec3::normalize of an integer vector whose length is an integer
RNormalize(v) ==
    LET len == VLength(v)
    IN  IF len # 0 THEN <<Rat(v[1], len), Rat(v[2], len), Rat(v[3], len)>> ELSE RVec(v)

\* Vec3::invert
RVInvert(v) == RVSub(RVec(<<0, 0, 0>>), v)

\* Sphere::surface_normal
SphereSurfaceNormal(s, direction, point) ==
    LET unscaled == RVSub(point, RVec(s.origin))
        \* point lies on the sphere: the length of unscaled is the radius
    IN  IF s.radius # 0 THEN RVMult(unscaled, Rat(1, s.radius)) ELSE unscaled

\* Poly::static_normal, of poly.rs and of poly_mesh.rs
StaticNormal(poly) == VCross(VSub(poly.y, poly.x), VSub(poly.z, poly.x))

\* Poly::surface_normal, of poly.rs and of poly_mesh.rs
PolySurfaceNormal(poly, direction, point) ==
    LET normal == RNormalize(StaticNormal(poly))
    IN  IF RGt(RVDot(normal, RVec(direction)), RZero) THEN RVInvert(normal) ELSE normal

\* Primitive::surface_normal
SurfaceNormal(shape, direction, point) ==
    CASE shape.variant = "Sphere" -> SphereSurfaceNormal(shape.sphere, direction, point)
      [] shape.variant = "Poly" -> PolySurfaceNormal(shape.poly, direction, point)
      [] OTHER -> PolySurfaceNormal(shape.poly, direction, point)

\* Primitive::intersects, with the hit distance as a rational
ShapeIntersects(shape, r) ==
    IF shape.variant = "Sphere"
    THEN LET h == SphereIntersects(shape.sphere, r)
         IN  IF h.kind = "Hit" THEN ShapeHit(Rat(h.p.v, 1)) ELSE ShapeMissed
    ELSE PolyIntersects(shape.poly, r)

\* Intersection::point
IntersectionPoint(isect) == RVAdd(RVec(isect.ray.ori), RVMult(RVec(isect.ray.dir), isect.point))

\* Intersection::surface_normal
IntersectionSurfaceNormal(isect) ==
    SurfaceNormal(isect.shape, isect.ray.dir, IntersectionPoint(isect))

\* Intersection::reflective_ray
IntersectionReflectiveRay(isect) ==
    LET reflect(normal, d0, point) ==
            RayInit(RVAdd(point, RVMult(normal, Rat(1, 10000))),
                    RVSub(RVMult(normal, RMul(RVDot(d0, normal), Rat(2, 1))), d0))
    IN  CHOOSE reflected \in { reflect(normal, RVInvert(RVec(isect.ray.dir)), IntersectionPoint(isect)) :
                            normal \in {IntersectionSurfaceNormal(isect)} } : TRUE

\* The primitives and rays reflective_ray is called with: the ray hits the
\* primitive, from outside or from inside, in either medium.
ReflectShapes ==
    { SpherePrim(s) : s \in TestSpheres }
        \cup { PolyPrim(poly) : poly \in Triangles }
        \cup { MeshPolyPrim(poly) : poly \in Triangles }
ReflectRays == { [r EXCEPT !.vacuum = v] : r \in Rays \cup MeshRays, v \in BOOLEAN }

ExactNormal(shape, r) ==
    IF shape.variant = "Sphere" THEN Exact(<<shape.sphere>>, r)
    ELSE IsSquare(VDot(StaticNormal(shape.poly), StaticNormal(shape.poly)))

\* Intersection::new and Intersection::reflective_ray
CallReflectiveRay(shape, r) ==
    /\ call = NoCall
    /\ ExactNormal(shape, r)
    /\ ShapeIntersects(shape, r).kind = "Hit"
    /\ LET isect == [point |-> ShapeIntersects(shape, r).p, ray |-> r, shape |-> shape]
       IN  /\ call' = [fn |-> "reflective_ray", isect |-> isect]
           /\ result' = IntersectionReflectiveRay(isect)
    /\ UNCHANGED <<bvhVars, shadeVars>>

\* The calls made on one SceneParser, and the files it is made for: up to
\* two tokens, with or without whitespace behind the last one.
MaxCalls == 4
TokenFiles == UNION { [1..n -> {"a", "b"}] : n \in 0..2 }

\* SceneParser::new
CallParserNew(toks, ws) ==
    /\ call = NoCall
    /\ call' = [fn |-> "SceneParser", toks |-> toks, ws |-> ws]
    /\ result' = [p |-> ParserNew(toks, ws), log |-> <<>>]
    /\ UNCHANGED <<bvhVars, shadeVars>>

\* The parser is there, has not panicked and may be called once more.
ParserLive ==
    /\ call.fn = "SceneParser"
    /\ result.p.ok
    /\ Len(result.log) < MaxCalls

\* SceneParser::peak; the log keeps what the call returned and what
\* has_next_token answered before it.
CallPeak ==
    /\ ParserLive
    /\ call' = call
    /\ result' = [p |-> Peak(result.p).p,
                  log |-> Append(result.log,
                                 [op |-> "peak", tkn |-> Peak(result.p).tkn,
                                  has_next |-> HasNextToken(result.p)])]
    /\ UNCHANGED <<bvhVars, shadeVars>>

\* SceneParser::next_token
CallNextToken ==
    /\ ParserLive
    /\ call' = call
    /\ result' = [p |-> NextToken(result.p).p,
                  log |-> Append(result.log,
                                 [op |-> "next_token", tkn |-> NextToken(result.p).tkn,
                                  has_next |-> HasNextToken(result.p)])]
    /\ UNCHANGED <<bvhVars, shadeVars>>

(***************************************************************************)
(* The materials of a triangle with PER_VERTEX_MATERIAL binding            *)
(* (scene/parser/mod.rs, scene/shapes/poly.rs).  A material of a poly_set  *)
(* is its diffuse colour; a Poly is its materials, the mat_index of its    *)
(* three vertices and vertex_material.  materials[k] of the code is        *)
(* materials[k + 1] here.                                                  *)
(***************************************************************************)
BindPanicked == [kind |-> "Panic"]

\* A binding that gives the third vertex the first material whenever its
\* index has been seen before.
BindVertexMaterialsThirdFirst(materials, mat_index) ==
    LET i0 == mat_index[1]
        i1 == mat_index[2]
        i2 == mat_index[3]
        out(i) == i >= Len(materials)
        m0 == <<materials[i0 + 1]>>
        m1 == IF i1 # i0 THEN Append(m0, materials[i1 + 1]) ELSE m0
        m2 == IF i2 # i1 /\ i2 # i0 THEN Append(m1, materials[i2 + 1]) ELSE m1
    IN  IF out(i0) \/ out(i1) \/ out(i2) THEN BindPanicked
        ELSE [kind |-> "Poly", materials |-> m2,
              mat_index |-> <<0, IF i1 # i0 THEN 1 ELSE 0,
                              IF i2 # i1 /\ i2 # i0 THEN Len(m2) - 1 ELSE 0>>,
              vertex_material |-> TRUE]

\* parse_polyset, lines 267-287: the materials the three vertices name are
\* cloned into the triangle, each once, and the vertices are given their
\* places in poly.materials.  materials[i] panics for an index that is not
\* below the number of materials.
BindVertexMaterials(materials, mat_index) ==
    LET i0 == mat_index[1]
        i1 == mat_index[2]
        i2 == mat_index[3]
        out(i) == i >= Len(materials)
        third(m1, v1) ==
            IF i2 # i1 /\ i2 # i0
            THEN IF out(i2) THEN BindPanicked
                 ELSE [kind |-> "Poly", materials |-> Append(m1, materials[i2 + 1]),
                       mat_index |-> <<0, v1, Len(m1)>>, vertex_material |-> TRUE]
            ELSE IF i2 = i1 /\ i2 # i0
            THEN [kind |-> "Poly", materials |-> m1, mat_index |-> <<0, v1, 1>>,
                  vertex_material |-> TRUE]
            ELSE [kind |-> "Poly", materials |-> m1, mat_index |-> <<0, v1, 0>>,
                  vertex_material |-> TRUE]
        second(m0) ==
            IF i1 # i0
            THEN IF out(i1) THEN BindPanicked
                 ELSE third(Append(m0, materials[i1 + 1]), Len(m0))
            ELSE third(m0, 0)
    IN  IF out(i0) THEN BindPanicked ELSE second(<<materials[i0 + 1]>>)

\* The materials of a poly_set, and the material indices of a triangle's
\* vertices: every pattern of equal and different indices, and indices that
\* name no material.
SetColors ==
    <<F32ColorInit(RNum(1, 1), RNum(0, 1), RNum(0, 1)),
      F32ColorInit(RNum(0, 1), RNum(1, 1), RNum(0, 1)),
      F32ColorInit(RNum(0, 1), RNum(0, 1), RNum(1, 1))>>
SetMaterials == { SubSeq(SetColors, 1, n) : n \in 1..3 }
MatIndices == { <<i0, i1, i2>> : i0 \in 0..3, i1 \in 0..3, i2 \in 0..3 }

\* parse_polyset gives one triangle its materials
CallBindVertexMaterials(materials, mat_index) ==
    /\ call = NoCall
    /\ call' = [fn |-> "parse_polyset binding", materials |-> materials,
                mat_index |-> mat_index]
    /\ result' = [poly |-> BindVertexMaterials(materials, mat_index), color |-> None]
    /\ UNCHANGED <<bvhVars, shadeVars>>

\* Poly::diffuse_color and Poly::interpolated_color of poly.rs for the areas
\* (area0, area1, area2) that weighted_areas returns: the colour is built
\* from materials[0], materials[1] and materials[2]; indexing a Vec beyond
\* its length panics.
PolyDiffuseColor(poly, areas) ==
    IF ~poly.vertex_material
    THEN [kind |-> "Color", val |-> poly.materials[1]]
    ELSE IF Len(poly.materials) < 3
    THEN PolyPanicked
    ELSE [kind |-> "Color",
          val |-> F32ColorAdd(F32ColorAdd(F32ColorMult(poly.materials[1], areas[3]),
                                          F32ColorMult(poly.materials[2], areas[2])),
                              F32ColorMult(poly.materials[3], areas[1]))]

\* What weighted_areas returns for points at the vertices and inside.
AreaWeights ==
    { <<RNum(1, 1), RNum(0, 1), RNum(0, 1)>>, <<RNum(0, 1), RNum(1, 1), RNum(0, 1)>>,
      <<RNum(0, 1), RNum(0, 1), RNum(1, 1)>>, <<RNum(1, 2), RNum(1, 4), RNum(1, 4)>> }

BoundInputs(S) ==
    IF call.fn = "parse_polyset binding" /\ result.poly.kind = "Poly" /\ ~result.color.some
    THEN S ELSE {}

\* Poly::diffuse_color on the triangle parse_polyset has bound
CallBoundDiffuseColor(areas) ==
    /\ call.fn = "parse_polyset binding"
    /\ result.poly.kind = "Poly"
    /\ ~result.color.some
    /\ call' = call
    /\ result' = [result EXCEPT !.color = Some([areas |-> areas,
                                                 ret |-> PolyDiffuseColor(result.poly, areas)])]
    /\ UNCHANGED <<bvhVars, shadeVars>>

\* One function is called on its own from the idle state; the methods of
\* Color are called one after another on the same value.  Inputs are only
\* drawn where the call can be made.
IdleInputs(S) == IF call = NoCall THEN S ELSE {}
ColorInputs(S) == IF ColorLive THEN S ELSE {}

CallNext ==
    \/ \E prims \in IdleInputs(PrimLists), r \in Rays : CallSceneIntersects(prims, r)
    \/ \E polys \in IdleInputs(MeshLists), r \in MeshRays : CallMeshIntersects(polys, r)
    \/ \E kind \in IdleInputs(LightKinds), m \in MaterialIds, sj \in ShadowScalars,
          d \in LightDists, num_samples \in 1..MaxSamples, nl \in LightCosines,
          rv \in LightCosines :
            CallDirectLightning(kind, m, sj, d, num_samples, nl, rv)
    \/ CallColorNew
    \/ \E r \in IdleInputs(F32Values), g \in F32Values, b \in F32Values : CallColorInit(r, g, b)
    \/ \E i \in ColorInputs(1..3), x \in F32Values : CallColorSet(i, x)
    \/ \E num \in ColorInputs(F32Values) : CallColorMult(num)
    \/ \E col \in ColorInputs(F32Colors) : CallColorMul(col)
    \/ \E col \in ColorInputs(F32Colors) : CallColorAdd(col)
    \/ \E width \in IdleInputs(1..MaxSide), height \in 1..MaxSide : CallTraceRays(width, height)
    \/ \E hit \in IF TraceRaysLive THEN BOOLEAN ELSE {} : TraceRaysPixel(hit)
    \/ \E poly \in IdleInputs(Triangles), point \in AreaPoints : CallDiffuseColor(poly, point)
    \/ \E poly \in IdleInputs(Triangles), point \in AreaPoints : CallInterpolatedNormal(poly, point)
    \/ \E light \in IdleInputs(Extents), r \in Draws3 : CallSamplePoint(light, r)
    \/ \E light \in IdleInputs(Extents), r \in Draws3 : CallSampleTarget(light, r)
    \/ \E light \in IdleInputs(PixelLights), num_samples \in 1..MaxSamples, rd \in PixelDraws :
            \E rs \in [1..num_samples -> PixelDraws] : CallTracePixel(light, num_samples, rs, rd)
    \/ \E rd \in (IF call.fn = "trace_pixel" THEN PixelDraws ELSE {}) :
            \E rs \in [1..call.num_samples -> PixelDraws] : TracePixelAgain(rs, rd)
    \/ \E toks \in IdleInputs(TokenStreams), ws \in BOOLEAN : CallParseScene(toks, ws)
    \/ ParseSceneLoop
    \/ \E s \in IdleInputs(TestSpheres), r \in Rays : CallSphereIntersects(s, r)
    \/ \E cam \in IdleInputs(Cameras), side \in 1..MaxSide, x \in 0..(MaxSide - 1), y \in 0..(MaxSide - 1) : CallComputeRay(cam, side, x, y)
    \/ \E shape \in IdleInputs(ReflectShapes), r \in ReflectRays : CallReflectiveRay(shape, r)
    \/ \E toks \in IdleInputs(TokenFiles), ws \in BOOLEAN : CallParserNew(toks, ws)
    \/ CallPeak
    \/ CallNextToken
    \/ \E materials \in IdleInputs(SetMaterials), mat_index \in MatIndices : CallBindVertexMaterials(materials, mat_index)
    \/ \E areas \in BoundInputs(AreaWeights) : CallBoundDiffuseColor(areas)

SpecCalls == CallInit /\ [][CallNext]_vars

(***************************************************************************)
(* The claims about functions called on their own                          *)
(***************************************************************************)
\* C11: Scene.intersects and Mesh.intersects return Missed exactly when no
\* element is hit, and otherwise the element with the least hit distance,
\* the earliest of those at that distance; Mesh.intersects returns that
\* triangle's index with it.
C11_LinearScansKeepEarliestNearest ==
    /\ call.fn = "Scene::intersects" =>
            LET hit == [i \in 1..Len(call.primitives) |-> PrimIntersects(call.primitives[i], call.ray)]
                hits == { i \in 1..Len(call.primitives) : hit[i].kind = "Hit" }
            IN  IF hits = {}
                THEN result = Missed
                ELSE \E i \in hits :
                        /\ result = Intersected(hit[i].p, call.primitives[i])
                        /\ \A j \in hits : hit[i].p.v <= hit[j].p.v
                        /\ \A j \in hits : j < i => hit[i].p.v < hit[j].p.v
    /\ call.fn = "Mesh::intersects" =>
            LET hit == [i \in 1..Len(call.polys) |-> PolyIntersects(call.polys[i], call.ray)]
                hits == { i \in 1..Len(call.polys) : hit[i].kind = "Hit" }
                before(a, b) == a[1] * b[2] < b[1] * a[2]
            IN  IF hits = {}
                THEN result[1].kind = "Missed"
                ELSE \E i \in hits :
                        /\ result = <<ShapeHit(hit[i].p), i - 1>>
                        /\ \A j \in hits : ~before(hit[j].p, hit[i].p)
                        /\ \A j \in hits : j < i => before(hit[i].p, hit[j].p)

\* C11 witness: a mesh of three triangles in which the second and the third
\* are hit at the same least distance, nearer than the first, and the
\* second is returned.
C11_Witness ==
    /\ call.fn = "Mesh::intersects"
    /\ Len(call.polys) = 3
    /\ result[1].kind = "Hit"
    /\ result[2] = 1
    /\ PolyIntersects(call.polys[1], call.ray).kind = "Hit"
    /\ PolyIntersects(call.polys[3], call.ray) = result[1]
    /\ call.polys[3] # call.polys[2]

\* The term one sampled direction contributes to direct lighting:
\* direct_light * (diffuse_light + specular_light).
SampleTerm(c) ==
    LET mat == Materials[c.mat]
        direct_light == ColorMult(ColorMul(LightIntensity, c.sj), CalculateFattj(c.kind, c.dist))
    IN  ColorMul(direct_light,
                 ColorAdd(DiffuseLightning(mat.transparency, mat.diffuse, c.nl),
                          SpecularLightning(mat.shininess * 128, mat.specular, c.rv)))

\* C12: direct lighting is the mean of its sample terms (every sample of a
\* call gives the same term here, so the mean is that term), and for a Point
\* or Directional light it is the same for every number of samples.
C12_DirectLightIsMeanOfSamples ==
    call.fn = "direct_lightning" =>
        /\ result = SampleTerm(call)
        /\ call.kind # "AreaLight" =>
                \A n \in 1..MaxSamples :
                    DirectLightning(call.kind, Materials[call.mat], call.sj,
                                    CalculateFattj(call.kind, call.dist), n,
                                    call.nl, call.rv) = result

(***************************************************************************)
(* The claims about the colours of the shading engine                      *)
(***************************************************************************)
\* The channel-wise sum of two colours, nothing clamped.
ExactAdd(a, b) == <<RAdd(a[1], b[1]), RAdd(a[2], b[2]), RAdd(a[3], b[3])>>

\* What the step of the running activation hands to its caller or to the pixel.
Returned == IF Len(stack) = 1 THEN pixel'.val ELSE TopAfter.ret

\* C13: shade_intersection returns the exact channel-wise sum
\* ambient + direct + reflective + refractive of its four contributions;
\* nothing is clamped to [0, 1] on the way.
C13_ShadeReturnsUnclampedSum ==
    [][ Running("shade", "sum") =>
            LET m == Materials[Top.isect.mat]
                ambient_light == AmbientLightning(m.transparency, m.ambient, m.diffuse)
            IN  Returned = ExactAdd(ExactAdd(ExactAdd(ambient_light, Top.direct_light),
                                             Top.reflective_light), Top.refractive_light) ]_vars

\* C14: every Color value made by Color::new, Color::init, the setters r, g,
\* b, mult, Mul and Add has each channel within [0, 1]; a setter given a
\* value below 0 stores 0 and given a value above 1 stores 1; as_pixel
\* yields bytes within 0..255.
C14_ColorChannelsInUnitRange ==
    call.fn = "Color" =>
        /\ \A i \in 1..3 :
                /\ result[i].k = "num"
                /\ ~RLt(result[i].v, RZero)
                /\ ~RGt(result[i].v, ROne)
                /\ AsPixelChannel(result[i]) \subseteq 0..255
        /\ \A i \in 1..3 :
                call.last = <<"r", "g", "b">>[i] =>
                    /\ ChanLt(call.arg, RNum(0, 1)) => result[i] = RNum(0, 1)
                    /\ ChanLt(RNum(1, 1), call.arg) => result[i] = RNum(1, 1)

\* C15: trace_rays on an image of width W and height H traces the pixels
\* (x, y) with 0 <= x < W and 0 <= y < H, each exactly once by the time it
\* returns, normalises x by W and y by H, and writes no pixel outside the
\* image.
C15_TraceRaysCoversImage ==
    call.fn = "trace_rays" =>
        LET W == call.width
            H == call.height
            traced(x, y) == { i \in 1..Len(result.rays) :
                                result.rays[i].x = x /\ result.rays[i].y = y }
        IN  /\ \A i \in 1..Len(result.rays) :
                    /\ result.rays[i].x \in 0..(W - 1)
                    /\ result.rays[i].y \in 0..(H - 1)
                    /\ result.rays[i].dir = <<Rat(result.rays[i].x, W), Rat(result.rays[i].y, H)>>
            /\ \A x \in 0..(W - 1), y \in 0..(H - 1) : Cardinality(traced(x, y)) <= 1
            /\ ~TraceRaysLive =>
                    \A x \in 0..(W - 1), y \in 0..(H - 1) : Cardinality(traced(x, y)) = 1
            /\ \A i \in 1..Len(result.set_pixel) :
                    /\ result.set_pixel[i][1] \in 0..(W - 1)
                    /\ result.set_pixel[i][2] \in 0..(H - 1)

(***************************************************************************)
(* The claims about triangles                                              *)
(***************************************************************************)
\* The three area ratios of a triangle at a point, as weighted_areas
\* computes them, and the ratios cut down to 1.
AreaRatios(poly, point) ==
    LET area == GetArea(poly.x, poly.y, poly.z)
    IN  <<AreaDiv(GetArea(poly.x, poly.y, point), area),
          AreaDiv(GetArea(poly.z, poly.x, point), area),
          AreaDiv(GetArea(poly.y, poly.z, point), area)>>
Saturated(a) == [i \in 1..3 |-> IF ChanLt(RNum(1, 1), a[i]) THEN RNum(1, 1) ELSE a[i]]

\* C16: where a barycentric area weight of the point exceeds 1, diffuse_color
\* and interpolated_normal do not abort: they return the colour, and the
\* normal, of the weights cut down to 1.
C16_WeightsAboveOneSaturate ==
    LET a == AreaRatios(call.poly, call.point)
    IN  /\ (call.fn = "Poly::diffuse_color" /\ \E i \in 1..3 : ChanLt(RNum(1, 1), a[i])) =>
                /\ result # PolyPanicked
                /\ result = [kind |-> "Color", val |-> WeightedColor(Saturated(a))]
        /\ (call.fn = "Poly::interpolated_normal" /\ \E i \in 1..3 : ChanLt(RNum(1, 1), a[i])) =>
                /\ result # PolyPanicked
                /\ result = [kind |-> "Normal", val |-> WeightedNormal(Saturated(a))]

(***************************************************************************)
(* The claims about Area lights                                            *)
(***************************************************************************)
\* C18: every point sampled on an Area light, by AreaLight::sample_point and
\* as a sample target of shadow_scalar and direct_lightning, lies inside the
\* extent of the light: min[i] <= p[i] <= max[i] on each axis.
C18_SamplesInsideExtent ==
    call.fn \in {"AreaLight::sample_point", "sample_target"} =>
        \A i \in 1..3 :
            /\ ~RLt(result[i], Rat(call.light.min[i], 1))
            /\ ~RGt(result[i], Rat(call.light.max[i], 1))

\* C17: tracing a pixel is a function of the scene and the pixel: two
\* evaluations of the same pixel, with the same depth and number of
\* samples, return the same colour, Area lights included.
C17_PixelIsPureFunction ==
    (call.fn = "trace_pixel" /\ Len(result) = 2) => result[1] = result[2]

(***************************************************************************)
(* The claims about the scene parser                                       *)
(***************************************************************************)
\* C19: parse_scene returns no Scene for a file that is not a scene, and
\* when it returns a Scene it has skipped no token: every token of the
\* file has been read and none is left unmatched in the parser's one-token
\* look-ahead, whether or not whitespace follows the last token.
C19_MalformedNeverParses ==
    (call.fn = "parse_scene" /\ result.kind = "Scene") =>
        /\ call.toks \notin MalformedStreams
        /\ result.p.pos = Len(call.toks)
        /\ result.p.peaked => result.p.last_token.val = ""

(***************************************************************************)
(* The claims about spheres                                                *)
(***************************************************************************)
\* The real roots of a t^2 + b t + c = 0 for the sphere and the ray of the
\* call, the smaller first; the rays have a = 1, and the roots are integers.
SphereRoots ==
    LET orig == VSub(call.ray.ori, call.sphere.origin)
        a == VDot(call.ray.dir, call.ray.dir)
        b == 2 * VDot(call.ray.dir, orig)
        root == Sqrt(Disc(call.sphere, call.ray))
    IN  <<(-b - root) \div (2 * a), (-b + root) \div (2 * a)>>

\* C20: Sphere.intersects returns Missed when the discriminant is negative;
\* otherwise, for the real roots t0 <= t1, Missed when t1 < 0, Hit(t1) when
\* t0 < 0 <= t1, and Hit(t0) when t0 >= 0.  The unit sphere at (0, 0, -5) is
\* hit at distance 4 by the ray from the origin along (0, 0, -1).
C20_SphereSmallestNonNegativeRoot ==
    call.fn = "Sphere::intersects" =>
        LET t0 == SphereRoots[1]
            t1 == SphereRoots[2]
        IN  /\ result = IF Disc(call.sphere, call.ray) < 0 THEN ShapeMissed
                        ELSE IF t1 < 0 THEN ShapeMissed
                        ELSE IF t0 < 0 THEN ShapeHit(Num(t1))
                        ELSE ShapeHit(Num(t0))
            /\ (/\ call.sphere = SphereInit(<<0, 0, -5>>, 1)
                /\ call.ray = RayInit(<<0, 0, 0>>, <<0, 0, -1>>)) => result = ShapeHit(Num(4))

\* C20 witness: the unit sphere at (0, 0, -5) has been hit at distance 4 by
\* the ray from the origin along (0, 0, -1).
C20_Witness ==
    /\ call.fn = "Sphere::intersects"
    /\ call.sphere = SphereInit(<<0, 0, -5>>, 1)
    /\ call.ray = RayInit(<<0, 0, 0>>, <<0, 0, -1>>)
    /\ result = ShapeHit(Num(4))

(***************************************************************************)
(* The claims about the camera                                             *)
(***************************************************************************)
\* C21: the direction of compute_ray before normalisation is
\* center + dx + dy - cameraPos, with center = cameraPos + viewDir * SCALE,
\* so that it does not depend on the camera's position.
C21_RayDirectionRelativeToCamera ==
    call.fn = "compute_ray" =>
        LET rt == call.rt
            center == VAdd(call.cam.pos, VMult(call.cam.view_dir, SCALE))
        IN  result.dir = RVSub(RVAdd(RVAdd(RVec(center), PlaneDx(rt, call.x)),
                                     PlaneDy(rt, call.y)),
                               RVec(call.cam.pos))

(***************************************************************************)
(* The claims about the shape of the tree                                  *)
(***************************************************************************)
\* The Member nodes of a tree, each with its recursion depth in Tree::build.
RECURSIVE MembersAt(_, _)
MembersAt(node, depth) ==
    IF node.kind = "Member"
    THEN {<<node.node, depth>>} \cup MembersAt(node.node.left, depth + 1)
                                \cup MembersAt(node.node.right, depth + 1)
    ELSE {}

\* Twice the centroid coordinate of a leaf's primitive on an axis (0, 1, 2).
LeafCoord(leaf, axis) == Centroid2(GetBBox(leaf.shape.val))[axis + 1]

RECURSIVE MemberNodes(_)
MemberNodes(node) ==
    IF node.kind = "Member"
    THEN {node} \cup MemberNodes(node.node.left) \cup MemberNodes(node.node.right)
    ELSE {}

\* C23: at a Member node whose bbox the ray misses, intersects_node returns
\* Missed and evaluates no primitive of the subtree; at one whose bbox the
\* ray intersects it evaluates both children and returns the hit of the
\* smaller distance when both hit, the only hit when one child hits, and
\* Missed when neither hits.
C23_PruneOrCombineChildren ==
    (built /\ ray.some /\ bvhRes # NotRun) =>
        \A m \in MemberNodes(tree) :
            LET res == IntersectsNode(m, ray.val)
                left == IntersectsNode(m.node.left, ray.val)
                right == IntersectsNode(m.node.right, ray.val)
            IN  IF ~BBoxIntersects(m.node.bbox, ray.val)
                THEN res = NodeMissed /\ Evaluations(m, ray.val) = 0
                ELSE /\ Evaluations(m, ray.val) =
                            Evaluations(m.node.left, ray.val)
                            + Evaluations(m.node.right, ray.val)
                     /\ (left.kind = "Hit" /\ right.kind = "Hit") =>
                            /\ res \in {left, right}
                            /\ ~FLt(left.p, res.p)
                            /\ ~FLt(right.p, res.p)
                     /\ (left.kind = "Hit" /\ right.kind # "Hit") => res = left
                     /\ (left.kind # "Hit" /\ right.kind = "Hit") => res = right
                     /\ (left.kind # "Hit" /\ right.kind # "Hit") => res = NodeMissed

\* C23 witness: a query has been answered on a tree whose root's bbox the
\* ray intersects; the left child is hit, and the right child is a Member
\* node that holds a primitive the ray would hit nowhere, pruned by its bbox.
C23_Witness ==
    /\ built /\ ray.some /\ bvhRes # NotRun
    /\ tree.kind = "Member"
    /\ BBoxIntersects(tree.node.bbox, ray.val)
    /\ IntersectsNode(tree.node.left, ray.val).kind = "Hit"
    /\ tree.node.right.kind = "Member"
    /\ ~BBoxIntersects(tree.node.right.node.bbox, ray.val)
    /\ Evaluations(tree.node.right, ray.val) = 0
    /\ Evaluations(tree, ray.val) = 1
    /\ bvhRes.kind = "Intersected"

C25_ReflectiveOriginOnIncomingSide ==
    call.fn = "reflective_ray" =>
        LET dir == RVec(call.isect.ray.dir)
            normal == IntersectionSurfaceNormal(call.isect)
            offset == RVSub(result.ori, IntersectionPoint(call.isect))
        IN  /\ ~RGt(RVDot(normal, dir), RZero)
            /\ ~RGt(RVDot(offset, dir), RZero)

\* C26: the ray reflective_ray returns carries the in_vacuum value of the
\* incoming ray held by the intersection.
C26_ReflectionKeepsMedium ==
    call.fn = "reflective_ray" => result.vacuum = call.isect.ray.vacuum

(***************************************************************************)
(* The claims about the tokens of the parser                               *)
(***************************************************************************)
\* The tokens next_token returned to the calls made while has_next_token()
\* held, in the order of the calls.
RECURSIVE ReturnedTokens(_)
ReturnedTokens(log) ==
    IF log = <<>> THEN <<>>
    ELSE IF log[Len(log)].op = "next_token" /\ log[Len(log)].has_next
         THEN Append(ReturnedTokens(SubSeq(log, 1, Len(log) - 1)), log[Len(log)].tkn)
         ELSE ReturnedTokens(SubSeq(log, 1, Len(log) - 1))

\* Two peak calls in a row return the same token, and a next_token call
\* right after a peak returns the token peaked at.
PeakKeepsToken ==
    call.fn = "SceneParser" =>
        \A i \in 1..(Len(result.log) - 1) :
            result.log[i].op = "peak" => result.log[i + 1].tkn = result.log[i].tkn

\* peaked is true exactly when last_token is Some, and no call has panicked.
PeakedIffLastToken ==
    call.fn = "SceneParser" =>
        /\ result.p.peaked <=> result.p.last_token.some
        /\ result.p.ok

\* C27: whatever the file and however peak and next_token calls follow one
\* another, two peaks in a row return the same token, a next_token after a
\* peak returns the token peaked at, peaked holds exactly when last_token
\* is Some, and the tokens next_token has returned while has_next_token()
\* held are the tokens of the file, in order (stated for files that hold a
\* token).
C27_TokensInOrder ==
    /\ PeakKeepsToken
    /\ PeakedIffLastToken
    /\ (call.fn = "SceneParser" /\ call.toks # <<>>) =>
            LET returned == ReturnedTokens(result.log)
            IN  /\ Len(returned) <= Len(call.toks)
                /\ returned = SubSeq(call.toks, 1, Len(returned))

(***************************************************************************)
(* The claims about per-vertex materials                                   *)
(***************************************************************************)
\* The indices of a triangle's vertices without repetitions, in the order
\* of their first use.
FirstUse(mat_index) ==
    LET i0 == mat_index[1]
        i1 == mat_index[2]
        i2 == mat_index[3]
    IN  <<i0>> \o (IF i1 # i0 THEN <<i1>> ELSE <<>>)
               \o (IF i2 \notin {i0, i1} THEN <<i2>> ELSE <<>>)

\* C28: a triangle that parse_polyset has bound to per-vertex materials
\* holds each material its vertices name once, in the order of first use
\* (one, two or three entries), and the mat_index of each vertex is the
\* place in poly.materials of the material the vertex named in the file.
C28_PerVertexMaterialsRemapped ==
    (call.fn = "parse_polyset binding" /\ result.poly.kind = "Poly") =>
        LET poly == result.poly
            used == FirstUse(call.mat_index)
        IN  /\ Len(poly.materials) = Len(used)
            /\ Len(poly.materials) = Cardinality({ call.mat_index[k] : k \in 1..3 })
            /\ \A j \in 1..Len(used) : poly.materials[j] = call.materials[used[j] + 1]
            /\ \A k \in 1..3 :
                    /\ poly.mat_index[k] < Len(poly.materials)
                    /\ poly.materials[poly.mat_index[k] + 1]
                            = call.materials[call.mat_index[k] + 1]

\* C28 witness: the first and the third vertex name material 1 and the
\* second names material 0; the triangle holds the two materials, 1 first.
C28_Witness ==
    /\ call.fn = "parse_polyset binding"
    /\ call.mat_index = <<1, 0, 1>>
    /\ result.poly.kind = "Poly"
    /\ result.poly.materials = <<SetColors[2], SetColors[1]>>
    /\ result.poly.mat_index = <<0, 1, 0>>

\* C30: on a triangle bound to per-vertex materials diffuse_color stays
\* within poly.materials and weights vertex k with the material at
\* poly.materials[vertices[k].mat_index] (vertex 0 by area2, vertex 1 by
\* area1, vertex 2 by area0), also when vertices share a material.
C30_DiffuseColorFollowsMatIndex ==
    (call.fn = "parse_polyset binding" /\ result.color.some) =>
        LET poly == result.poly
            areas == result.color.val.areas
            of(k) == poly.materials[poly.mat_index[k] + 1]
        IN  /\ result.color.val.ret.kind = "Color"
            /\ result.color.val.ret.val =
                    F32ColorAdd(F32ColorAdd(F32ColorMult(of(1), areas[3]),
                                            F32ColorMult(of(2), areas[2])),
                                F32ColorMult(of(3), areas[1]))

(***************************************************************************)
(* The claims about the shape of the tree                                  *)
(***************************************************************************)
\* Below node, no Member node has an Empty child or a shape, and every
\* Leaf has a shape.
RECURSIVE WellFormed(_)
WellFormed(node) ==
    CASE node.kind = "Empty" -> TRUE
      [] node.kind = "Leaf" -> node.node.shape.some
      [] OTHER ->
            /\ ~node.node.shape.some
            /\ node.node.left.kind # "Empty"
            /\ node.node.right.kind # "Empty"
            /\ WellFormed(node.node.left)
            /\ WellFormed(node.node.right)

\* C29: in the tree Tree::init has built no Member node has an Empty child
\* or a primitive and every Leaf has a primitive; a Hit of the tree names a
\* node that holds a primitive, and BvhScene::intersects has not panicked
\* in get_shape.
C29_HitsHoldAPrimitive ==
    built =>
        /\ WellFormed(tree)
        /\ tree.kind = "Empty" <=> primitives = <<>>
        /\ ray.some =>
                LET h == IntersectsNode(tree, ray.val)
                IN  h.kind = "Hit" => h.node.shape.some
        /\ bvhRes # Panicked

\* C29 witness: the tree over three primitives has been asked and the hit
\* is a primitive of a leaf two levels down.
C29_Witness ==
    /\ built
    /\ Len(primitives) = 3
    /\ tree.kind = "Member"
    /\ tree.node.right.kind = "Member"
    /\ bvhRes.kind = "Intersected"
    /\ IntersectsNode(tree.node.right, ray.val).kind = "Hit"
    /\ IntersectsNode(tree.node.left, ray.val).kind = "Missed"

====
